---- MODULE Spec2Model ----
(***************************************************************************)
(* Reading Companion: the content script's quote anchoring and highlight   *)
(* reconstruction engine (src/popup.js, lines 1375-1743).                   *)
(*                                                                         *)
(* Strings are sequences of one-character strings.  The document body is   *)
(* a serialised DOM tree: a sequence of tokens (element open, element      *)
(* close, text node).  A "fill" token stands for a run of n sibling        *)
(* elements that each hold one short text node (one character), so that    *)
(* documents with more text nodes than the walker's cap can be written     *)
(* down.  Quote ids are naturals; 0 stands for the empty id "".            *)
(***************************************************************************)
EXTENDS Integers, Sequences, FiniteSets, Bags, TLC

VARIABLES
    doc,                    \* document.body, as a token sequence
    styled,                 \* the style element #rc-highlight-style exists
    href,                   \* location.href: the page and its hash
    lastHighlightUrl,       \* popup.js:1383
    lastHighlightSignature, \* popup.js:1384
    calls,                  \* refreshHighlights invocations awaiting their fetch
    obs,                    \* what the last step did (history)
    lastRun,                \* url and quotes of the last fetch that was ok,
                            \* whether a fetch was started after it, and the
                            \* ids scrollToQuote wrapped on demand since the
                            \* last applyHighlights (history)
    entry,                  \* the entry handed to the Locator (SpecLoc)
    found,                  \* what the Locator returned (SpecLoc)
    lastSentProgress,       \* popup.js:1380
    sendTimer,              \* popup.js:1381: 0 for null, else the timer's id
    scrollY,                \* window.scrollY
    scrollRange,            \* scrollHeight - clientHeight of the document
    timers,                 \* the report timers set and not yet fired
    due,                    \* what else is to come: the 1000 ms trigger, the
                            \* 250 ms triggers, the scroll and resize events
    wait,                   \* the popup's openQuoteAtLocation or
                            \* goToSelectedProgress: where it stands, and the
                            \* locals of its wait for the navigated tab
    storage,                \* chrome.storage.local: materials, pages,
                            \* collections
    inflight,               \* the message handlers of the service worker that
                            \* await storage, each with the data it read
    clock,                  \* nowUnixSeconds()
    issued,                 \* how many ids makeId has returned
    received,               \* how many store messages have been received
    ops,                    \* how many calls of chrome.storage.local the
                            \* handlers have made
    saved,                  \* the bookmarks with an id seen in storage, each
                            \* with its material (history)
    removed,                \* the ids of the bookmarks a deleting message
                            \* was aimed at (history)
    pendingChapterPrompts,  \* background.js:149: notificationId ->
                            \* {materialId, url}
    notified,               \* the notifications created so far, each with
                            \* its material and URL (history)
    selection,              \* window.getSelection(): the text node and the
                            \* offsets of its range
    chaptersPage,           \* popup.js:17
    lastSelectedChapterByMaterial,
                            \* popup.js:16, for the selected material: the
                            \* number of the chapter remembered, 0 for none
    chaptersAll,            \* how many chapters the selected material has
    refreshing,             \* the calls of refreshUI that await their data
    pager                   \* the chapter pager as last rendered

progVars == <<lastSentProgress, sendTimer, scrollY, scrollRange, timers, due>>

promptVars == <<pendingChapterPrompts, notified>>

storeVars == <<storage, inflight, clock, issued, received, ops, saved, removed,
               promptVars>>

popupVars == <<chaptersPage, lastSelectedChapterByMaterial, chaptersAll, refreshing,
               pager>>

restVars == <<progVars, wait, storeVars, selection, popupVars>>

vars == <<doc, styled, href, lastHighlightUrl, lastHighlightSignature, calls,
          obs, lastRun, entry, found, restVars>>

-----------------------------------------------------------------------------
(* Bounds of the model. *)

MaxTextLen == 6
MaxDocLen == 5
MaxPending == 2
MaxRestores == 1
MaxRange == 200

(* Program constants. *)

MinNeedleLen == 3
MinNodeLen == 3
NodeCap == 25000
MatchCap == 250
ExactBonus == 50
MaxQuotes == 50
NeverSent == -1
MinDelta == 2

-----------------------------------------------------------------------------
(* Strings. *)

Min(S) == CHOOSE x \in S : \A y \in S : x <= y
Max(S) == CHOOSE x \in S : \A y \in S : x >= y
Abs(x) == IF x < 0 THEN -x ELSE x
Max2(a, b) == IF a >= b THEN a ELSE b
Min2(a, b) == IF a <= b THEN a ELSE b

Letters == {"a", "b"}

RECURSIVE StrUpTo(_)
StrUpTo(n) ==
    IF n = 0 THEN {<< >>}
    ELSE LET S == StrUpTo(n - 1)
         IN  S \cup {Append(s, c) : s \in {t \in S : Len(t) = n - 1}, c \in Letters}

\* String.prototype.toLowerCase, on the characters the model uses.  "I"
\* stands for U+0130 (capital I with dot above), whose lower case is two
\* code units: "i" and the combining dot U+0307, written ".".
LowerChar(c) ==
    IF c = "A" THEN <<"a">>
    ELSE IF c = "B" THEN <<"b">>
    ELSE IF c = "I" THEN <<"i", ".">>
    ELSE <<c>>

RECURSIVE LowerRange(_, _, _)
LowerRange(s, lo, hi) ==
    IF lo > hi THEN << >>
    ELSE IF lo = hi THEN LowerChar(s[lo])
    ELSE LET mid == (lo + hi) \div 2
         IN  LowerRange(s, lo, mid) \o LowerRange(s, mid + 1, hi)

toLowerCase(s) == LowerRange(s, 1, Len(s))

IsSpace(c) == c = " "

\* String.prototype.trim
trim(s) ==
    LET keep == {i \in 1..Len(s) : ~IsSpace(s[i])}
    IN  IF keep = {} THEN << >>
        ELSE SubSeq(s, Min(keep), CHOOSE i \in keep : \A j \in keep : j <= i)

\* String.prototype.slice(from, to) with 0-based offsets, 0 <= from
slice(s, from, to) == SubSeq(s, from + 1, Min2(to, Len(s)))

\* the needle stands at the 0-based offset i of hay
OccursAt(hay, needle, i) ==
    /\ i + Len(needle) <= Len(hay)
    /\ \A c \in 1..Len(needle) : hay[i + c] = needle[c]

\* String.prototype.indexOf(needle, fromIndex): the least 0-based offset
\* >= fromIndex at which the needle stands, -1 when there is none
indexOf(hay, needle, fromIndex) ==
    LET range == fromIndex..(Len(hay) - Len(needle))
    IN  IF \E i \in range : OccursAt(hay, needle, i)
        THEN CHOOSE i \in range :
                /\ OccursAt(hay, needle, i)
                /\ \A j \in fromIndex..(i - 1) : ~OccursAt(hay, needle, j)
        ELSE -1

endsWith(s, suf) ==
    Len(suf) <= Len(s) /\ SubSeq(s, Len(s) - Len(suf) + 1, Len(s)) = suf

startsWith(s, pre) ==
    Len(pre) <= Len(s) /\ SubSeq(s, 1, Len(pre)) = pre

commonSuffixLength(a, b) ==
    LET max == Min2(Len(a), Len(b))
        stop == {i \in 0..(max - 1) : a[Len(a) - i] # b[Len(b) - i]}
    IN  IF stop = {} THEN max ELSE Min(stop)

commonPrefixLength(a, b) ==
    LET max == Min2(Len(a), Len(b))
        stop == {i \in 0..(max - 1) : a[i + 1] # b[i + 1]}
    IN  IF stop = {} THEN max ELSE Min(stop)

-----------------------------------------------------------------------------
(* The DOM. *)

T(v) == [k |-> "text", tag |-> "", cls |-> "", id |-> 0, n |-> 1, v |-> v]
O(tag) == [k |-> "open", tag |-> tag, cls |-> "", id |-> 0, n |-> 1, v |-> << >>]
M(id) == [k |-> "open", tag |-> "span", cls |-> "rc-highlight", id |-> id, n |-> 1, v |-> << >>]
C == [k |-> "close", tag |-> "", cls |-> "", id |-> 0, n |-> 1, v |-> << >>]
F(n) == [k |-> "fill", tag |-> "i", cls |-> "", id |-> 0, n |-> n, v |-> <<"x">>]

IsText(t) == t.k = "text"
IsOpen(t) == t.k = "open"
IsClose(t) == t.k = "close"
IsFill(t) == t.k = "fill"
IsMarker(t) == t.k = "open" /\ t.tag = "span" /\ t.cls = "rc-highlight"

SkipTags == {"script", "style", "textarea", "input", "select", "option", "noscript"}

\* the close token of the element opened at token j
RECURSIVE CloseFrom(_, _, _)
CloseFrom(d, k, depth) ==
    IF k > Len(d) THEN Len(d) + 1
    ELSE IF IsOpen(d[k]) THEN CloseFrom(d, k + 1, depth + 1)
    ELSE IF IsClose(d[k])
        THEN IF depth = 1 THEN k ELSE CloseFrom(d, k + 1, depth - 1)
    ELSE CloseFrom(d, k + 1, depth)

MatchClose(d, j) == CloseFrom(d, j + 1, 1)

\* the open tokens of the elements around token i (body excluded)
Ancestors(d, i) == {j \in 1..(i - 1) : IsOpen(d[j]) /\ MatchClose(d, j) > i}

\* (closest() without the .rc-highlight test)
SkipsTagsOnly(t) == t.tag \in SkipTags

\* (closest() for the marker only)
SkipsMarkersOnly(t) == t.cls = "rc-highlight"

\* parent.closest(...) matches at this element (popup.js:1490-1491)
SkipsSubtree(t) == t.tag \in SkipTags \/ t.cls = "rc-highlight"

\* isSkippableNode, for the text node at token i: closest() looks at the
\* parent and at every ancestor
isSkippableNode(d, i) == \E j \in Ancestors(d, i) : SkipsSubtree(d[j])

\* the text nodes among the tokens lo..hi
RECURSIVE SumFill(_, _)
SumFill(d, S) ==
    IF S = {} THEN 0
    ELSE LET j == CHOOSE x \in S : TRUE IN d[j].n + SumFill(d, S \ {j})

CountTextNodes(d, lo, hi) ==
    Cardinality({k \in lo..hi : IsText(d[k])})
    + SumFill(d, {k \in lo..hi : IsFill(d[k])})

-----------------------------------------------------------------------------
(* Locator: findBestMatchInDocument. *)

NoMatch == [node |-> 0, start |-> 0, end |-> 0]

\* the context score of one occurrence (popup.js:1599-1609)
Score(pre, post, before, after) ==
    (IF before # << >>
        THEN commonSuffixLength(pre, before)
             + (IF endsWith(pre, before) THEN ExactBonus ELSE 0)
        ELSE 0)
    + (IF after # << >>
        THEN commonPrefixLength(post, after)
             + (IF startsWith(post, after) THEN ExactBonus ELSE 0)
        ELSE 0)

\* (a hit taken for perfect on its before context alone)
HitBeforeOnly(pre, post, before, after) == before # << >> /\ endsWith(pre, before)

\* the "perfect context hit" test (popup.js:1615)
PerfectHit(pre, post, before, after) ==
    /\ before # << >> /\ endsWith(pre, before)
    /\ after # << >> /\ startsWith(post, after)

\* (a best that an equal score replaces)
ReplacesOnTie(score, bestScore) == score >= bestScore

\* an occurrence replaces the current best (popup.js:1611)
Replaces(score, bestScore) == score > bestScore

\* where the scan of a node resumes after an occurrence at idx (popup.js:1620)
NextFromIndex(idx, needleLower) == idx + Max2(1, Len(needleLower))

\* (a counter that no number of occurrences exceeds)
NeverPerNode(matchCounter) == FALSE

\* the pathological-input guard, on the counter after its increment
\* (popup.js:1592)
PerNodeCapHit(matchCounter) == matchCounter > MatchCap

\* one round of the inner loop over the occurrences in one text node
\* (popup.js:1587-1622); i is the node, st.acc the running best/bestScore,
\* done the early return (taken when q.bail holds, as in the code), seen the
\* occurrences scored so far, each with its score, capped the nodes left at
\* matchCounter > 250; st.more tells whether another round follows
ScanStep(i, lower, q, st) ==
    LET idx == indexOf(lower, q.needleLower, st.fromIndex)
    IN  IF idx < 0 THEN [st EXCEPT !.more = FALSE]
        ELSE IF PerNodeCapHit(st.matchCounter + 1)
                THEN [st EXCEPT !.more = FALSE, !.acc.capped = @ \cup {i}]
        ELSE
            LET acc == st.acc
                end == idx + Len(q.needle)
                pre == slice(lower, 0, idx)
                post == slice(lower, end, Len(lower))
                score == Score(pre, post, q.before, q.after)
                seen == acc.seen \cup {<<i, idx, score>>}
                acc1 == IF Replaces(score, acc.bestScore)
                          THEN [acc EXCEPT
                                  !.best = [node |-> i, start |-> idx, end |-> end],
                                  !.bestScore = score,
                                  !.done = q.bail /\ PerfectHit(pre, post, q.before, q.after),
                                  !.seen = seen]
                          ELSE [acc EXCEPT !.seen = seen]
                next == NextFromIndex(idx, q.needleLower)
            IN  [fromIndex |-> next, matchCounter |-> st.matchCounter + 1,
                 acc |-> acc1, more |-> ~acc1.done /\ next < Len(lower)]

\* up to n rounds of the loop, one after the other
RECURSIVE ScanRounds(_, _, _, _, _)
ScanRounds(i, lower, q, st, n) ==
    IF ~st.more THEN st
    ELSE IF n = 1 THEN ScanStep(i, lower, q, st)
    ELSE ScanRounds(i, lower, q, ScanRounds(i, lower, q, st, n \div 2), n - (n \div 2))

\* the loop from fromIndex = 0, matchCounter = 0; every round moves
\* fromIndex on, so that it has no more rounds than lower has characters,
\* and one
ScanNode(i, lower, q, acc) ==
    ScanRounds(i, lower, q,
               [fromIndex |-> 0, matchCounter |-> 0, acc |-> acc, more |-> TRUE],
               Len(lower) + 1).acc

\* the document-size guard, on the counter after its increment (popup.js:1580)
CapHit(safetyCounter) == safetyCounter > NodeCap

\* the walk left at safetyCounter > 25000
Stopped(acc) == [acc EXCEPT !.stopped = TRUE]

\* the tokens of the elements isSkippableNode matches, with all they contain
SkippedTokens(d) ==
    UNION {j..MatchClose(d, j) : j \in {x \in 1..Len(d) : IsOpen(d[x]) /\ SkipsSubtree(d[x])}}

\* the TreeWalker loop over the text nodes of the body (popup.js:1572-1625).
\* The text nodes below elements that isSkippableNode matches are all
\* skipped: they are counted, and the walk goes on behind the elements.
RECURSIVE Walk(_, _, _, _, _, _)
Walk(d, q, skipped, i, safetyCounter, acc) ==
    IF i > Len(d) THEN acc
    ELSE
        LET t == d[i]
        IN  IF i \in skipped
                THEN LET next == Min({k \in i..Len(d) : k \notin skipped} \cup {Len(d) + 1})
                         inside == CountTextNodes(d, i, next - 1)
                     IN  IF CapHit(safetyCounter + inside) THEN Stopped(acc)
                         ELSE Walk(d, q, skipped, next, safetyCounter + inside, acc)
            ELSE IF IsOpen(t) \/ IsClose(t)
                THEN Walk(d, q, skipped, i + 1, safetyCounter, acc)
            ELSE IF IsFill(t)
                \* t.n text nodes of one character: each counts, none is scanned
                THEN IF CapHit(safetyCounter + t.n) THEN Stopped(acc)
                     ELSE Walk(d, q, skipped, i + 1, safetyCounter + t.n, acc)
            ELSE IF CapHit(safetyCounter + 1) THEN Stopped(acc)
            ELSE IF Len(t.v) < MinNodeLen
                THEN Walk(d, q, skipped, i + 1, safetyCounter + 1, acc)
            ELSE
                LET acc1 == ScanNode(i, toLowerCase(t.v), q, acc)
                IN  IF acc1.done THEN acc1
                    ELSE Walk(d, q, skipped, i + 1, safetyCounter + 1, acc1)

\* (the test without the length)
EmptyOnly(needle) == needle = << >>

\* needle too short to be searched for (popup.js:1566-1567)
TooShort(needle) == needle = << >> \/ Len(needle) < MinNeedleLen

\* best = null, bestScore = -1 (popup.js:1575-1576)
NoBest ==
    [best |-> NoMatch, bestScore |-> -1, done |-> FALSE, seen |-> {},
     capped |-> {}, stopped |-> FALSE]

\* findBestMatchInDocument with what it scored; bail tells whether the
\* perfect context hit returns at once, as it does in the code
Locator(d, e, bail) ==
    LET needle == trim(e.text)
    IN  IF TooShort(needle) THEN NoBest
        ELSE Walk(d,
                  [needle |-> needle,
                   needleLower |-> toLowerCase(needle),
                   before |-> toLowerCase(e.contextBefore),
                   after |-> toLowerCase(e.contextAfter),
                   bail |-> bail],
                  SkippedTokens(d), 1, 0, NoBest)

findBestMatchInDocument(d, e) == Locator(d, e, TRUE).best

Entry(id, text, before, after) ==
    [id |-> id, text |-> text, contextBefore |-> before, contextAfter |-> after]

-----------------------------------------------------------------------------
(* Highlighter: DOM mutation. *)

\* node.parentNode: the open token of the element around token j, 0 for body
ParentOpen(d, j) ==
    LET anc == Ancestors(d, j)
    IN  IF anc = {} THEN 0 ELSE CHOOSE k \in anc : \A x \in anc : x <= k

FillText(n) == [i \in 1..n |-> "x"]

\* Node.textContent of the tokens lo..hi
RECURSIVE TextContent(_, _, _)
TextContent(d, lo, hi) ==
    IF lo > hi THEN << >>
    ELSE (IF IsText(d[lo]) THEN d[lo].v
          ELSE IF IsFill(d[lo]) THEN FillText(d[lo].n)
          ELSE << >>)
         \o TextContent(d, lo + 1, hi)

\* the text of the text nodes lo..hi of a run, concatenated
RECURSIVE Concat(_, _, _)
Concat(run, lo, hi) == IF lo > hi THEN << >> ELSE run[lo].v \o Concat(run, lo + 1, hi)

Dropped == [k |-> "none", tag |-> "", cls |-> "", id |-> 0, n |-> 1, v |-> << >>]

\* the last of the adjacent text nodes that start at token e
RECURSIVE RunEnd(_, _)
RunEnd(r, e) == IF e = Len(r) \/ ~IsText(r[e + 1]) THEN e ELSE RunEnd(r, e + 1)

\* Node.normalize on a run of tokens: empty text nodes go, adjacent text
\* nodes merge into the first of them
normalize(run) ==
    LET r == SelectSeq(run, LAMBDA t : ~(IsText(t) /\ t.v = << >>))
        leads(i) == ~IsText(r[i]) \/ i = 1 \/ ~IsText(r[i - 1])
        merged == [i \in 1..Len(r) |->
                    IF ~leads(i) THEN Dropped
                    ELSE IF IsText(r[i]) THEN T(Concat(r, i, RunEnd(r, i)))
                    ELSE r[i]]
    IN  SelectSeq(merged, LAMBDA t : t # Dropped)

\* parent.normalize() for the element opened at token p (0: body)
NormalizeParent(d, p) ==
    LET pc == IF p = 0 THEN Len(d) + 1 ELSE MatchClose(d, p)
    IN  SubSeq(d, 1, p) \o normalize(SubSeq(d, p + 1, pc - 1)) \o SubSeq(d, pc, Len(d))

TextOrNone(v) == IF v = << >> THEN << >> ELSE <<T(v)>>

wrapTextMatch(d, i, start, end, quoteId) ==
    LET text == d[i].v
        before == slice(text, 0, start)
        match == slice(text, start, end)
        after == slice(text, end, Len(text))
        span == <<M(quoteId)>> \o TextOrNone(match) \o <<C>>
        frag == TextOrNone(before) \o span \o TextOrNone(after)
    IN  SubSeq(d, 1, i - 1) \o frag \o SubSeq(d, i + 1, Len(d))

MarkerOpens(d) == {j \in 1..Len(d) : IsMarker(d[j])}

\* the body of clearHighlights' loop applied to the span opened at token j
ClearSpan(d, j) ==
    LET c == MatchClose(d, j)
        p == ParentOpen(d, j)
        d1 == SubSeq(d, 1, j - 1) \o <<T(TextContent(d, j, c))>> \o SubSeq(d, c + 1, Len(d))
    IN  NormalizeParent(d1, p)

\* (a clearHighlights that removes nothing)
KeepMarkers(d) == d

\* clearHighlights: the spans are taken in document order; a span inside one
\* already replaced is no longer in the document
RECURSIVE clearHighlights(_)
clearHighlights(d) ==
    IF MarkerOpens(d) = {} THEN d
    ELSE clearHighlights(ClearSpan(d, Min(MarkerOpens(d))))

\* findHighlightSpanById: the first marker tagged with the id, 0 for null
findHighlightSpanById(d, id) ==
    IF id = 0 THEN 0
    ELSE LET hits == {j \in MarkerOpens(d) : d[j].id = id}
         IN  IF hits = {} THEN 0 ELSE Min(hits)

\* findHighlightSpanForText: the first marker whose text equals the needle
findHighlightSpanForText(d, text) ==
    LET needle == toLowerCase(trim(text))
        hits == {j \in MarkerOpens(d) :
                    toLowerCase(trim(TextContent(d, j, MatchClose(d, j)))) = needle}
    IN  IF needle = << >> \/ hits = {} THEN 0 ELSE Min(hits)

\* highlightEntry after wrapTextMatch, d1 being the document it left: the
\* element highlightEntry returns (0: null)
Wrapped(e, d1) ==
    [doc |-> d1,
     el |-> IF e.id # 0 THEN findHighlightSpanById(d1, e.id)
            ELSE findHighlightSpanForText(d1, e.text),
     wrapped |-> TRUE]

\* highlightEntry after findBestMatchInDocument, match being what it found
HighlightMatch(d, e, match) ==
    IF match = NoMatch THEN [doc |-> d, el |-> 0, wrapped |-> FALSE]
    ELSE Wrapped(e, wrapTextMatch(d, match.node, match.start, match.end, e.id))

\* highlightEntry: the document after it, the element it returns (0: null)
\* and whether it wrapped a match
highlightEntry(d, e) == HighlightMatch(d, e, findBestMatchInDocument(d, e))

\* quotes.map(...): text trimmed (popup.js:1672-1677)
NormalizeQuote(q) == Entry(q.id, trim(q.text), q.contextBefore, q.contextAfter)

\* .filter((q) => q.text.length >= 3)
ValidQuote(q) == Len(q.text) >= MinNeedleLen

MaxLenOf(qs) == IF qs = << >> THEN 0
                ELSE CHOOSE n \in {Len(qs[i].text) : i \in 1..Len(qs)} :
                        \A i \in 1..Len(qs) : Len(qs[i].text) <= n

\* .sort((a, b) => b.text.length - a.text.length): stable, longer first
RECURSIVE SortFrom(_, _)
SortFrom(qs, n) ==
    IF n < 0 THEN << >>
    ELSE SelectSeq(qs, LAMBDA q : Len(q.text) = n) \o SortFrom(qs, n - 1)

\* (a sort that leaves the order as it is)
KeepOrder(qs) == qs

SortLongestFirst(qs) == SortFrom(qs, MaxLenOf(qs))

\* (a slice that keeps everything)
NoCap(qs) == qs

\* .slice(0, 50)
CapQuotes(qs) == SubSeq(qs, 1, Min2(Len(qs), MaxQuotes))

\* the entries applyHighlights attempts, in order
Normalized(quotes) ==
    CapQuotes(SortLongestFirst(SelectSeq(
        [i \in 1..Len(quotes) |-> NormalizeQuote(quotes[i])], ValidQuote)))

\* the for loop of applyHighlights: d is the document so far, wrapped the
\* entries that were wrapped so far
RECURSIVE HighlightAll(_, _, _, _)
HighlightAll(entries, k, d, wrapped) ==
    IF k > Len(entries) THEN [doc |-> d, wrapped |-> wrapped]
    ELSE LET r == highlightEntry(d, entries[k])
         IN  IF r.wrapped
                THEN HighlightAll(entries, k + 1, r.doc, Append(wrapped, entries[k]))
                ELSE HighlightAll(entries, k + 1, d, wrapped)

applyHighlights(d, quotes) ==
    HighlightAll(Normalized(quotes), 1, clearHighlights(d), << >>)

\* the signature of a fetched quote list: id and raw text length of each quote
Signature(quotes) == [i \in 1..Len(quotes) |-> <<quotes[i].id, Len(quotes[i].text)>>]

\* location.href values: a page and a hash
Url(page, hash) == [page |-> page, hash |-> hash]

\* the initial value "" of lastHighlightUrl
NoUrl == Url("", "")

\* normalizeUrl: the URL without its hash
normalizeUrl(input) == [input EXCEPT !.hash = ""]

\* what chrome.runtime.sendMessage({type: "getQuotesForUrl", url}) can end
\* with: a rejection, an answer that is not ok, an answer with quotes
Threw == [kind |-> "throw", quotes |-> << >>]
NotOk == [kind |-> "notok", quotes |-> << >>]
Ok(quotes) == [kind |-> "ok", quotes |-> quotes]

\* (a fetch whose every outcome is taken for a quote list)
ProceedsAlways(res) == TRUE

\* refreshHighlights goes on after its await: the fetch did not throw and
\* the answer is ok (popup.js:1693-1694, 1705)
Proceeds(res) == res.kind = "ok"

\* (a guard that never holds)
GuardNever(url, sig) == FALSE

\* the guard of refreshHighlights against repeated work
SameAsLast(url, sig) == lastHighlightUrl = url /\ lastHighlightSignature = sig

\* refreshHighlights from lastHighlightUrl = url on, r being what
\* applyHighlights gives
Applied(url, sig, r) ==
    [doc |-> r.doc, styled |-> TRUE, url |-> url, sig |-> sig,
     applied |-> TRUE, removed |-> Cardinality(MarkerOpens(doc)),
     wrapped |-> r.wrapped]

\* refreshHighlights from the answer of its fetch on, for the url it read
\* before the fetch: the document, the style element and the guard's two
\* variables afterwards, whether applyHighlights ran, the markers it removed
\* and the entries it wrapped
refreshResume(url, res) ==
    IF Proceeds(res) /\ ~SameAsLast(url, Signature(res.quotes))
    THEN Applied(url, Signature(res.quotes), applyHighlights(doc, res.quotes))
    ELSE [doc |-> doc, styled |-> styled, url |-> lastHighlightUrl,
          sig |-> lastHighlightSignature,
          applied |-> FALSE, removed |-> 0, wrapped |-> << >>]

\* (a lookup that finds nothing)
NeverById(d, payload) == 0

\* scrollToQuote's first lookup: the marker tagged with the payload's id
scrollById(d, payload) ==
    IF payload.id # 0 THEN findHighlightSpanById(d, payload.id) ELSE 0

\* scrollToQuote from its last resort on, h being what highlightEntry gives
LastResort(h) ==
    [doc |-> h.doc, styled |-> TRUE, stage |-> IF h.el # 0 THEN 4 ELSE 5,
     el |-> h.el, wrapped |-> h.wrapped]

\* scrollToQuote after its await of refreshHighlights, on the document d:
\* the step that yielded the element (2: by id, 3: by text, 4: highlightEntry,
\* 5: none), the element, the document and the style element afterwards
scrollResume(d, st, payload) ==
    IF scrollById(d, payload) # 0
        THEN [doc |-> d, styled |-> st, stage |-> 2,
              el |-> scrollById(d, payload), wrapped |-> FALSE]
    ELSE IF findHighlightSpanForText(d, trim(payload.text)) # 0
        THEN [doc |-> d, styled |-> st, stage |-> 3,
              el |-> findHighlightSpanForText(d, trim(payload.text)), wrapped |-> FALSE]
    ELSE LastResort(highlightEntry(d, payload))

-----------------------------------------------------------------------------
(* SpecLoc: the Locator as a function of a document and an entry. *)

Str3 == {s \in StrUpTo(3) : Len(s) = 3}

LocDocs ==
    \* one text node
    {<<T(s)>> : s \in StrUpTo(MaxTextLen)}
    \* two adjacent text nodes
    \cup {<<T(s1), T(s2)>> : s1, s2 \in StrUpTo(3) \ {<< >>}}
    \* an element (plain, skipped, or a marker) followed by a text node
    \cup {<<e, T(s1), C, T(s2)>> :
            e \in {O("p"), M(1)} \cup {O(tag) : tag \in SkipTags},
            s1 \in Str3, s2 \in Str3 \cup {<< >>}}
    \* upper case and white space
    \cup {<<T(<<"A", "b", "A", " ", "a", "b", "a">>)>>,
          <<T(<<"a", "b", " ", "a", "B", "a", "b">>)>>}
    \* a character whose lower case is longer than itself
    \cup {<<T(<<"I">> \o s)>> : s \in Str3}
    \* a text node with room for a needle between its contexts, and another
    \cup {<<T(s1), T(s2)>> : s1 \in {x \in StrUpTo(5) : Len(x) = 5},
                              s2 \in {x \in StrUpTo(5) : Len(x) \in {3, 5}}}
    \* more text nodes than the walker visits
    \cup {<<F(n), T(s)>> : n \in {NodeCap - 1, NodeCap}, s \in Str3}

LocContexts ==
    {<< << >>, << >> >>, << <<"a">>, << >> >>, << << >>, <<"b">> >>,
     << <<"a">>, <<"b">> >>, << <<"b">>, <<"a">> >>, << <<"b">>, <<"b">> >>,
     << <<"A">>, <<"b", "a">> >>}

LocTexts ==
    Str3 \cup {<< >>, <<"a">>, <<"a", "b">>, <<" ", " ", " ">>,
               <<" ", "a", "b", " ">>, <<" ", "a", "b", "a", " ">>,
               <<"A", "B", "a">>}

LocEntries == {Entry(1, x, c[1], c[2]) : x \in LocTexts, c \in LocContexts}

NotCalled == [called |-> FALSE, m |-> NoMatch]
NoObs == [op |-> "none"]
\* the pager of popup.html before refreshUI has rendered it
NoPager == [page |-> 1, total |-> 1, shown |-> FALSE]
\* a popup that is not open
PopupIdle ==
    /\ chaptersPage = 1
    /\ lastSelectedChapterByMaterial = 0
    /\ chaptersAll = 0
    /\ refreshing = 0
    /\ pager = NoPager
\* selection.rangeCount === 0
NoSelection == [node |-> 0, startOffset |-> 0, endOffset |-> 0]
NoEntry == Entry(0, << >>, << >>, << >>)
NoRun == [url |-> NoUrl, quotes |-> << >>, followed |-> FALSE, onDemand |-> {}]

\* the progress reporter of a content script that takes no part
ProgIdle ==
    /\ lastSentProgress = NeverSent
    /\ sendTimer = 0
    /\ scrollY = 0
    /\ scrollRange = 0
    /\ timers = {}
    /\ due = [initial |-> FALSE, restore |-> 0, events |-> {}]

\* no popup operation under way: the locals of the wait (popup.js:640,
\* 1056) and what has been observed of it
NoWait ==
    [op |-> "", pc |-> "idle", opened |-> "", timeoutMs |-> 0,
     done |-> FALSE, listener |-> FALSE, timer |-> FALSE, ticks |-> 0, now |-> 0,
     resolved |-> 0, cause |-> "", at |-> 0, seen |-> << >>, sent |-> << >>,
     status |-> ""]

\* chrome.storage.local with nothing in it, as getAllData reads it
\* (background.js:36-40)
EmptyStore == [materials |-> << >>, pages |-> << >>, collections |-> << >>]

\* a service worker that takes no part
StoreIdle ==
    /\ storage = EmptyStore
    /\ inflight = {}
    /\ clock = 0
    /\ issued = 0
    /\ received = 0
    /\ ops = 0
    /\ saved = {}
    /\ removed = {}
    /\ pendingChapterPrompts = << >>
    /\ notified = {}

RestIdle == ProgIdle /\ wait = NoWait /\ StoreIdle /\ selection = NoSelection /\ PopupIdle

\* the highlighter of a freshly injected content script, the document apart
PageFresh ==
    /\ styled = FALSE
    /\ href = Url("u1", "")
    /\ lastHighlightUrl = NoUrl
    /\ lastHighlightSignature = << >>
    /\ calls = EmptyBag
    /\ obs = NoObs
    /\ lastRun = NoRun

\* the state of a freshly injected content script, the document apart
Fresh ==
    /\ PageFresh
    /\ RestIdle

InitLoc ==
    /\ doc \in LocDocs
    /\ entry \in LocEntries
    /\ found = NotCalled
    /\ Fresh

Locate ==
    /\ ~found.called
    /\ found' = [called |-> TRUE, m |-> findBestMatchInDocument(doc, entry)]
    /\ UNCHANGED <<doc, styled, href, lastHighlightUrl, lastHighlightSignature,
                   calls, obs, lastRun, entry, restVars>>

NextLoc == Locate

SpecLoc == InitLoc /\ [][NextLoc]_vars

-----------------------------------------------------------------------------
(* SpecHL: applyHighlights and clearHighlights called on a document. *)

\* unmarked documents, as a page can hold them when the script starts
HLDocs ==
    \* one text node
    {<<T(s)>> : s \in {x \in StrUpTo(MaxDocLen) : Len(x) = MaxDocLen}}
    \* text split over two adjacent text nodes
    \cup {<<T(s1), T(s2)>> : s1 \in Str3, s2 \in {<<"a">>, <<"b">>}}
    \* paragraphs, a skipped element, an empty text node, upper case, a
    \* character whose lower case is longer than itself
    \cup {<<O("p"), T(<<"a", "b", "a", "b">>), C, O("p"), T(<<"b", "a", "b">>), T(<<"a">>), C>>,
          <<O("script"), T(<<"a", "b", "a", "b">>), C, T(<<"a", "b", "a">>)>>,
          <<T(<<"a", "b", "a">>), T(<< >>), T(<<"b", "a">>)>>,
          <<O("p"), T(<<"A", "B", "a", "b", "a">>), C, T(<<"a", "b">>)>>,
          <<T(<<"I", "a", "b", "a", "b">>)>>}

QAbab == Entry(1, <<"a", "b", "a", "b">>, << >>, << >>)
QAba == Entry(2, <<"A", "b", "a">>, << >>, << >>)
QBab == Entry(3, <<"b", "a", "b">>, <<"a">>, << >>)
QLegacy == Entry(0, <<" ", "a", "b", "a">>, << >>, <<"b">>)
QShort == Entry(4, <<"a", "b", " ">>, << >>, << >>)
QLong == Entry(5, <<"a", "b", "a", "b", "a">>, << >>, << >>)

\* more valid quotes than the cap: a short one, MaxQuotes longer ones, a short one
ManyQuotes ==
    [i \in 1..(MaxQuotes + 2) |->
        IF i = 1 \/ i = MaxQuotes + 2
            THEN Entry(10 + i, <<"b", "a", "b">>, << >>, << >>)
            ELSE Entry(10 + i, <<"a", "b", "a", "b">>, << >>, << >>)]

\* a text node with room for each of them
Repeat(v, n) ==
    IF n = 0 THEN << >> ELSE [i \in 1..(n * Len(v)) |-> v[((i - 1) % Len(v)) + 1]]

ManyOccurrences == <<T(Repeat(<<"a", "b", "a", "b">>, MaxQuotes + 2))>>

HLQuoteLists ==
    {<< >>, <<QAbab>>, <<QAba>>, <<QBab>>, <<QLegacy>>, <<QShort>>,
     <<QAba, QAbab>>, <<QAbab, QAba>>, <<QBab, QAbab>>, <<QAbab, QBab>>,
     <<QAba, QBab>>, <<QLegacy, QAba>>, <<QShort, QAbab>>, <<QAba, QAba>>,
     <<QLong, QAbab, QBab>>, <<QBab, QLong, QAbab>>, ManyQuotes}

\* the positions of the document text (all text nodes concatenated) a marker wraps
TextLenBefore(d, j) ==
    Cardinality(UNION {{<<i, c>> : c \in 1..Len(d[i].v)} :
                        i \in {x \in 1..(j - 1) : IsText(d[x])}})

MarkerSpan(d, j) ==
    LET start == TextLenBefore(d, j)
    IN  [id |-> d[j].id, start |-> start,
         end |-> start + Len(TextContent(d, j, MatchClose(d, j)))]

Markers(d) == {MarkerSpan(d, j) : j \in MarkerOpens(d)}

\* the values of the text nodes, in document order
TextNodeSeq(d) == SelectSeq(d, IsText)

InitHL ==
    /\ doc \in HLDocs \cup {ManyOccurrences}
    /\ entry = NoEntry
    /\ found = NotCalled
    /\ Fresh

HLFrame == UNCHANGED <<href, lastHighlightUrl, lastHighlightSignature, calls,
                       lastRun, entry, found, restVars>>

\* applyHighlights(quotes).  obs keeps the unmarked document the entries
\* were located in, and the markers of the previous apply when that one had
\* the same quotes.
Apply(quotes) ==
    LET r == applyHighlights(doc, quotes)
        again == obs.op = "apply" /\ obs.quotes = quotes
    IN  /\ doc' = r.doc
        /\ styled' = TRUE
        /\ obs' = [op |-> "apply", quotes |-> quotes,
                   base |-> clearHighlights(doc),
                   unmarkedBefore |-> MarkerOpens(doc) = {},
                   wrapped |-> r.wrapped, again |-> again,
                   prevMarks |-> IF again THEN Markers(doc) ELSE {}]
        /\ HLFrame

\* clearHighlights().  obs keeps the unmarked document the preceding apply
\* started from, when there is one.
Clear ==
    /\ doc' = clearHighlights(doc)
    /\ UNCHANGED styled
    /\ obs' = [op |-> "clear",
               unmarkedBefore |-> MarkerOpens(doc) = {},
               changed |-> doc' # doc,
               afterApply |-> obs.op = "apply" /\ obs.unmarkedBefore,
               base |-> IF obs.op = "apply" /\ obs.unmarkedBefore THEN obs.base ELSE << >>]
    /\ HLFrame

NextHL ==
    \/ \E quotes \in HLQuoteLists : Apply(quotes)
    \/ Clear

SpecHL == InitHL /\ [][NextHL]_vars

-----------------------------------------------------------------------------
(* Spec: the content script in a page.  refreshHighlights is started by the
   two timers and by "refreshHighlights" messages, scrollToQuote by
   "scrollToQuote" messages; each fetch is answered later, in any order, and
   the page can change its URL in between. *)

\* the page when the script starts
PageDocs ==
    {<<T(<<"a", "b", "a", "b", "a">>)>>,
     <<T(<<"I", "a", "b", "a", "b">>)>>,
     <<O("p"), T(<<"a", "b", "a", "b">>), C, T(<<"a", "b", "a">>), T(<<"b">>)>>}

Hrefs == {Url("u1", ""), Url("u1", "h"), Url("u2", "")}

\* the quote lists the store can answer with
StoredQuotes == {<< >>, <<QAbab>>, <<QShort, QAba>>}

Answers == {Threw, NotOk} \cup {Ok(q) : q \in StoredQuotes}

QNoText == Entry(1, << >>, << >>, << >>)

\* the payloads of "scrollToQuote" messages
ScrollRefs == {QAbab, QLegacy, QShort, QNoText}

\* what an observer of the page sees: a marker tagged with the id, a marker
\* whose text is the text (trimmed, case-insensitive); after the last resort,
\* a marker with the payload's id, or with its text when it has no id
HasMarkerWithId(d, id) == id # 0 /\ \E j \in MarkerOpens(d) : d[j].id = id

HasMarkerWithText(d, text) ==
    \E j \in MarkerOpens(d) :
        toLowerCase(trim(TextContent(d, j, MatchClose(d, j)))) = toLowerCase(trim(text))

\* two quote lists with the same ids and text lengths in the same order
SameIdsAndLengths(p, q) ==
    /\ Len(p) = Len(q)
    /\ \A i \in 1..Len(p) : p[i].id = q[i].id /\ Len(p[i].text) = Len(q[i].text)

Init ==
    /\ doc \in PageDocs
    /\ entry = NoEntry
    /\ found = NotCalled
    /\ Fresh

Frame == UNCHANGED <<entry, found, restVars>>

\* a refreshHighlights invocation awaiting its fetch: the url it read, whether
\* scrollToQuote awaits it and with which payload
Call(url, scroll, payload) == [url |-> url, scroll |-> scroll, payload |-> payload]

\* every refreshHighlights invocation there can be
Calls ==
    {Call(normalizeUrl(h), FALSE, NoEntry) : h \in Hrefs}
    \cup {Call(normalizeUrl(h), TRUE, p) : h \in Hrefs, p \in ScrollRefs}

Pending == BagCardinality(calls)

\* setTimeout(refreshHighlights, ...) firing, or a "refreshHighlights"
\* message: refreshHighlights up to its await
StartRefresh ==
    /\ Pending < MaxPending
    /\ calls' = calls (+) SetToBag({Call(normalizeUrl(href), FALSE, NoEntry)})
    /\ lastRun' = [lastRun EXCEPT !.followed = TRUE]
    /\ obs' = NoObs
    /\ UNCHANGED <<doc, styled, href, lastHighlightUrl, lastHighlightSignature>>
    /\ Frame

\* a "scrollToQuote" message: scrollToQuote up to its return, its scroll or
\* its await of refreshHighlights
MsgScrollToQuote(payload) ==
    LET needle == trim(payload.text)
        el == scrollById(doc, payload)
        seen == [op |-> "scroll", payload |-> payload, awaited |-> FALSE,
                 hadId |-> HasMarkerWithId(doc, payload.id), wrapped |-> FALSE]
    IN  /\ IF needle = << >>
             THEN /\ obs' = seen @@ [stage |-> 0, scrolled |-> FALSE]
                  /\ UNCHANGED <<calls, lastRun>>
           ELSE IF el # 0
             THEN /\ obs' = seen @@ [stage |-> 1, scrolled |-> TRUE]
                  /\ UNCHANGED <<calls, lastRun>>
           ELSE /\ Pending < MaxPending
                /\ calls' = calls (+) SetToBag({Call(normalizeUrl(href), TRUE, payload)})
                /\ lastRun' = [lastRun EXCEPT !.followed = TRUE]
                /\ obs' = [op |-> "await", payload |-> payload,
                           hadId |-> HasMarkerWithId(doc, payload.id)]
        /\ UNCHANGED <<doc, styled, href, lastHighlightUrl, lastHighlightSignature>>
        /\ Frame

\* what a run of refreshHighlights did, r being what refreshResume gives
RunSeen(call, res, r) ==
    [fetched |-> res.kind = "ok",
     repeat |-> /\ res.kind = "ok"
                /\ lastRun.url = call.url
                /\ SameIdsAndLengths(lastRun.quotes, res.quotes),
     removed |-> r.removed, created |-> Len(r.wrapped),
     styledNow |-> r.styled /\ ~styled,
     guardMoved |-> <<r.url, r.sig>> # <<lastHighlightUrl, lastHighlightSignature>>,
     docChanged |-> r.doc # doc,
     overtaken |-> ~lastRun.followed,
     hadOnDemand |-> lastRun.onDemand # {}]

\* the history after a run of refreshHighlights
RunAfter(call, res, r) ==
    IF res.kind = "ok"
    THEN [url |-> call.url, quotes |-> res.quotes, followed |-> FALSE,
          onDemand |-> IF r.applied THEN {} ELSE lastRun.onDemand]
    ELSE lastRun

\* what scrollToQuote did after its await, d being the document it resumed
\* on and s what scrollResume gives
ScrollSeen(payload, d, s) ==
    [op |-> "scroll", payload |-> payload, awaited |-> TRUE, hadId |-> FALSE,
     wrapped |-> s.wrapped, stage |-> s.stage, scrolled |-> s.el # 0,
     midId |-> HasMarkerWithId(d, payload.id),
     midText |-> HasMarkerWithText(d, payload.text),
     midMatch |-> findBestMatchInDocument(d, payload) # NoMatch,
     newFound |-> IF payload.id # 0 THEN HasMarkerWithId(s.doc, payload.id)
                  ELSE HasMarkerWithText(s.doc, payload.text)]

\* the end of a run of refreshHighlights that nothing awaited
RefreshEnd(call, res, r) ==
    /\ doc' = r.doc
    /\ styled' = r.styled
    /\ lastRun' = RunAfter(call, res, r)
    /\ obs' = [op |-> "refresh", run |-> RunSeen(call, res, r)]

\* the end of a run of refreshHighlights that scrollToQuote awaited, and the
\* rest of scrollToQuote
ScrollEnd(call, res, r, s) ==
    /\ doc' = s.doc
    /\ styled' = s.styled
    /\ lastRun' = [RunAfter(call, res, r) EXCEPT
                      !.onDemand = IF s.wrapped THEN @ \cup {call.payload.id} ELSE @]
    /\ obs' = ScrollSeen(call.payload, r.doc, s) @@ [run |-> RunSeen(call, res, r)]

FetchEnd(call, res, r) ==
    /\ calls' = calls (-) SetToBag({call})
    /\ lastHighlightUrl' = r.url
    /\ lastHighlightSignature' = r.sig
    /\ IF call.scroll
         THEN ScrollEnd(call, res, r, scrollResume(r.doc, r.styled, call.payload))
         ELSE RefreshEnd(call, res, r)
    /\ UNCHANGED href
    /\ Frame

\* the fetch of a pending refreshHighlights is answered: refreshHighlights
\* runs to its end and, when scrollToQuote awaited it, scrollToQuote runs to
\* its end
FetchReturn(call, res) ==
    /\ BagIn(call, calls)
    /\ FetchEnd(call, res, refreshResume(call.url, res))

\* the page changes location.href (history.pushState, a hash link)
Navigate(h) ==
    /\ h # href
    /\ href' = h
    /\ obs' = NoObs
    /\ UNCHANGED <<doc, styled, lastHighlightUrl, lastHighlightSignature, calls, lastRun>>
    /\ Frame

Next ==
    \/ StartRefresh
    \/ \E payload \in ScrollRefs : MsgScrollToQuote(payload)
    \/ \E call \in Calls, res \in Answers : FetchReturn(call, res)
    \/ \E h \in Hrefs : Navigate(h)

Spec == Init /\ [][Next]_vars

-----------------------------------------------------------------------------
(* What the claims about the Locator speak of. *)

Scannable(d, i) == IsText(d[i]) /\ ~isSkippableNode(d, i)

\* how many text nodes the walker has visited when it reaches token i
RECURSIVE VisitIndex(_, _)
VisitIndex(d, i) ==
    IF i = 0 THEN 0
    ELSE VisitIndex(d, i - 1)
         + (IF IsText(d[i]) THEN 1 ELSE IF IsFill(d[i]) THEN d[i].n ELSE 0)

\* every occurrence <<node, start>> of the needle, case-insensitively, in the
\* text nodes that are not skipped, overlapping ones included
Occurrences(d, needle) ==
    {o \in UNION {{<<i, s>> : s \in 0..(Len(d[i].v) - Len(needle))} :
                    i \in {j \in 1..Len(d) : Scannable(d, j)}} :
        toLowerCase(slice(d[o[1]].v, o[2], o[2] + Len(needle))) = toLowerCase(needle)}

\* the occurrence is immediately preceded by before and followed by after
ContextAround(d, o, needle, before, after) ==
    LET value == d[o[1]].v
    IN  /\ endsWith(toLowerCase(slice(value, 0, o[2])), toLowerCase(before))
        /\ startsWith(toLowerCase(slice(value, o[2] + Len(needle), Len(value))),
                      toLowerCase(after))

AsMatch(o, needle) == [node |-> o[1], start |-> o[2], end |-> o[2] + Len(needle)]

LocNeedle == trim(entry.text)
LocOcc == Occurrences(doc, LocNeedle)
LocExact == {o \in LocOcc :
                ContextAround(doc, o, LocNeedle, entry.contextBefore, entry.contextAfter)}

\* C1 (as claimed): in a document with exactly two occurrences of the needle,
\* exactly one of them immediately preceded by contextBefore and followed by
\* contextAfter (both non-empty), the Locator returns that occurrence; the
\* documents are those the walker scans to the end.
C1_ExactContextWins ==
    ( /\ found.called
      /\ Len(LocNeedle) >= 3
      /\ entry.contextBefore # << >> /\ entry.contextAfter # << >>
      /\ VisitIndex(doc, Len(doc)) <= NodeCap
      /\ Cardinality(LocOcc) = 2
      /\ Cardinality(LocExact) = 1 )
    => \A o \in LocExact : found.m = AsMatch(o, LocNeedle)

\* C8 (as claimed): with exactly one occurrence of the needle and no context,
\* the Locator returns that occurrence: its node, its start and start + needle
\* length; the occurrence lies in one of the first 25,000 text nodes of the
\* walk.
C8_SingleOccurrence ==
    ( /\ found.called
      /\ Len(LocNeedle) >= 3
      /\ entry.contextBefore = << >> /\ entry.contextAfter = << >>
      /\ Cardinality(LocOcc) = 1
      /\ \A o \in LocOcc : VisitIndex(doc, o[1]) <= NodeCap )
    => \A o \in LocOcc : found.m = AsMatch(o, LocNeedle)

-----------------------------------------------------------------------------
(* What the claims about applyHighlights and clearHighlights speak of. *)

\* no marker inside a marker, and no two markers over one character
NoNesting(d) ==
    /\ \A j \in MarkerOpens(d) : \A k \in Ancestors(d, j) : ~IsMarker(d[k])
    /\ \A j, k \in MarkerOpens(d) :
          j < k => MarkerSpan(d, j).end <= MarkerSpan(d, k).start

\* as many marker records as marker elements
NoDuplicates(d) == Cardinality(Markers(d)) = Cardinality(MarkerOpens(d))

TrimLen(q) == Len(trim(q.text))

ValidIn(quotes) == {i \in 1..Len(quotes) : TrimLen(quotes[i]) >= 3}

\* how many valid quotes of the list applyHighlights attempts before the i-th
RankIn(quotes, i) ==
    Cardinality({j \in ValidIn(quotes) :
        \/ TrimLen(quotes[j]) > TrimLen(quotes[i])
        \/ TrimLen(quotes[j]) = TrimLen(quotes[i]) /\ j < i})

\* the span of the document text a match covers, up to the end of its node
SpanOf(d, m, id) ==
    [id |-> id, start |-> TextLenBefore(d, m.node) + m.start,
     end |-> TextLenBefore(d, m.node) + Min2(m.end, Len(d[m.node].v))]

\* b occurs in a, case-insensitively, and is shorter
ProperSubstring(b, a) ==
    /\ Len(b) < Len(a)
    /\ indexOf(toLowerCase(a), toLowerCase(b), 0) >= 0

Inside(m, s) == s.start <= m.start /\ m.end <= s.end

\* the Locator finds quotes[i] on the unmarked document, its marker covers
\* that span, and no marker tagged other lies inside the span
MarkedAsLocated(quotes, i, others) ==
    LET A == NormalizeQuote(quotes[i])
        m == findBestMatchInDocument(obs.base, A)
        span == SpanOf(obs.base, m, A.id)
    IN  m # NoMatch =>
            /\ span \in Markers(doc)
            /\ \A x \in Markers(doc) : x.id \in others /\ Inside(x, span) => x = span

\* C2 (as claimed): applyHighlights(Q) called a second time in succession
\* leaves the same markers (ids and character spans) as the first call did,
\* none duplicated, none nested.
C2_ApplyIdempotent ==
    (obs.op = "apply" /\ obs.again)
    => /\ Markers(doc) = obs.prevMarks
       /\ NoNesting(doc)
       /\ NoDuplicates(doc)

\* C5 (as claimed): for valid quotes A and B of the applied list with B's text
\* a proper substring of A's and another id, A's marker covers the span the
\* Locator picks for A on the unmarked document and no marker for B lies
\* inside it.
C5_LongerQuoteKeepsItsSpan ==
    obs.op = "apply" =>
        \A i, j \in ValidIn(obs.quotes) :
            ( /\ obs.quotes[i].id # obs.quotes[j].id
              /\ ProperSubstring(trim(obs.quotes[j].text), trim(obs.quotes[i].text)) )
            => MarkedAsLocated(obs.quotes, i, {obs.quotes[j].id})

AllIds(quotes) == {quotes[i].id : i \in 1..Len(quotes)}

\* C5 (amended): the valid quote attempted first (the longest, the first in
\* list order among the longest) is marked on the span the Locator picks for
\* it on the unmarked document, and no other marker lies inside that span.
C5_FirstAttemptedKeepsItsSpan ==
    obs.op = "apply" =>
        \A i \in ValidIn(obs.quotes) :
            RankIn(obs.quotes, i) = 0
            => MarkedAsLocated(obs.quotes, i, AllIds(obs.quotes))

\* the longer quote is listed after its substring and is the one marked
C5_Witness ==
    /\ obs.op = "apply"
    /\ obs.quotes = <<QBab, QAbab>>
    /\ findBestMatchInDocument(obs.base, QBab) # NoMatch
    /\ findBestMatchInDocument(obs.base, QAbab) # NoMatch
    /\ \E x \in Markers(doc) : x.id = QAbab.id
    /\ \A x \in Markers(doc) : x.id # QBab.id

\* C6: after applyHighlights there are at most 50 markers, and a valid quote
\* with 50 or more valid quotes attempted before it (longer ones, or as long
\* and listed earlier) has no marker.
C6_OnlyFiftyLongest ==
    obs.op = "apply" =>
        /\ Cardinality(MarkerOpens(doc)) <= 50
        /\ Len(obs.wrapped) <= 50
        /\ \A i \in ValidIn(obs.quotes) :
              RankIn(obs.quotes, i) >= 50
              => \A x \in Markers(doc) : x.id # obs.quotes[i].id

\* 52 valid quotes applied, 50 markers, and the text of a quote beyond the
\* cap still stands unmarked in the document
C6_Witness ==
    /\ obs.op = "apply"
    /\ Cardinality(ValidIn(obs.quotes)) > 50
    /\ Cardinality(MarkerOpens(doc)) = 50
    /\ \E i \in ValidIn(obs.quotes) :
          /\ RankIn(obs.quotes, i) >= 50
          /\ Occurrences(doc, trim(obs.quotes[i].text)) # {}

\* C9 (as claimed): clearHighlights after applyHighlights on an unmarked
\* document leaves no marker and the text nodes the document had before the
\* apply; without markers clearHighlights changes nothing.
C9_ClearRestores ==
    obs.op = "clear" =>
        /\ MarkerOpens(doc) = {}
        /\ obs.afterApply => TextNodeSeq(doc) = TextNodeSeq(obs.base)
        /\ obs.unmarkedBefore => ~obs.changed

-----------------------------------------------------------------------------
(* What the claims about the content script in a page speak of. *)

\* the last step ended a run of refreshHighlights
RunEnded == obs.op = "refresh" \/ (obs.op = "scroll" /\ obs.awaited)

\* C3: in every reachable state no marker is contained in another marker and
\* no character of the document text is wrapped by more than one marker.
C3_MarkersNeverNest == NoNesting(doc)

\* scrollToQuote's last resort wrapped a match next to a marker that
\* applyHighlights had left
C3_Witness ==
    /\ obs.op = "scroll" /\ obs.awaited
    /\ obs.stage = 4 /\ obs.wrapped
    /\ Cardinality(MarkerOpens(doc)) >= 2

\* C4: a run of refreshHighlights that fetches, for the same normalized URL,
\* a quote list with the ids and text lengths of the list the run before it
\* fetched, removes no marker, creates none, adds no style element, leaves
\* the document as it is and leaves lastHighlightUrl and
\* lastHighlightSignature unchanged.
C4_SignatureGuard ==
    (RunEnded /\ obs.run.repeat)
    => /\ obs.run.removed = 0
       /\ obs.run.created = 0
       /\ ~obs.run.styledNow
       /\ ~obs.run.docChanged
       /\ ~obs.run.guardMoved

\* the second run was in flight when the first fetched its list, the list
\* has a quote that is marked, and the second run changed nothing
C4_Witness ==
    /\ obs.op = "refresh"
    /\ obs.run.repeat /\ obs.run.overtaken
    /\ MarkerOpens(doc) # {}
    /\ obs.run.removed = 0 /\ obs.run.created = 0

\* the entries the page is given: to the Locator, as stored quotes, as payloads
GivenEntries ==
    LocEntries \cup ScrollRefs
    \cup UNION {{q[i] : i \in 1..Len(q)} : q \in StoredQuotes}

ShortEntries == {e \in GivenEntries : Len(trim(e.text)) < 3}

\* the ids that only entries with a short text carry
ShortOnlyIds ==
    {e.id : e \in ShortEntries} \ ({0} \cup {e.id : e \in GivenEntries \ ShortEntries})

\* C7: the Locator finds no match for an entry whose trimmed text is shorter
\* than 3 characters, whatever the document; no marker is tagged with the id
\* of such an entry; scrollToQuote with such a payload wraps nothing.
C7_ShortNeedlesIgnored ==
    /\ \A e \in ShortEntries : findBestMatchInDocument(doc, e) = NoMatch
    /\ \A j \in MarkerOpens(doc) : doc[j].id \notin ShortOnlyIds
    /\ (obs.op = "scroll" /\ Len(trim(obs.payload.text)) < 3) => ~obs.wrapped

\* scrollToQuote went through all its steps with the payload "ab ", which
\* stands in the document, and wrapped nothing, after applyHighlights had
\* been given the quote "ab " too
C7_Witness ==
    /\ obs.op = "scroll" /\ obs.awaited
    /\ obs.payload = QShort
    /\ obs.stage = 5 /\ ~obs.scrolled
    /\ obs.run.fetched /\ lastRun.quotes = <<QShort, QAba>>
    /\ Occurrences(doc, trim(QShort.text)) # {}

\* what scrollToQuote did, against what an observer saw: a marker with the
\* id at the call makes it scroll at once; after the await the first of
\* marker by id, marker by text, Locator match with the marker it wraps
\* decides; it scrolls exactly when one of the four yields a marker, and it
\* wraps exactly when the first three yield none and the Locator matches
ScrollLaw ==
    /\ obs.hadId => (obs.stage = 1 /\ obs.scrolled /\ ~obs.awaited)
    /\ obs.awaited =>
          obs.stage = (IF obs.midId THEN 2
                       ELSE IF obs.midText THEN 3
                       ELSE IF obs.midMatch /\ obs.newFound THEN 4 ELSE 5)
    /\ (~obs.awaited /\ ~obs.hadId) => obs.stage \notin 1..4
    /\ obs.scrolled <=> obs.stage \in 1..4
    /\ obs.wrapped <=> (obs.awaited /\ ~obs.midId /\ ~obs.midText /\ obs.midMatch)

\* C10 (as claimed): scrollToQuote goes through marker by id, refresh and
\* marker by id, marker by text, one-off match in this order and scrolls
\* exactly when one of them yields a marker, in particular whenever a marker
\* tagged with the ref's id exists at the call.
C10_StagesInOrder == obs.op = "scroll" => ScrollLaw

\* C10 (amended): the same for a ref whose trimmed text is not empty, the
\* await of refreshHighlights happening only when no marker has the id; a
\* ref whose trimmed text is empty is ignored.
C10_StagesInOrderGivenText ==
    /\ obs.op = "await" => (~obs.hadId /\ trim(obs.payload.text) # << >>)
    /\ (obs.op = "scroll" /\ trim(obs.payload.text) # << >>)
       => (ScrollLaw /\ (~obs.awaited => obs.hadId))
    /\ (obs.op = "scroll" /\ trim(obs.payload.text) = << >>)
       => (~obs.awaited /\ ~obs.scrolled /\ ~obs.wrapped)

\* no marker has the id after the refresh, none has the text, and the
\* one-off match yields the marker scrolled to
C10_Witness ==
    /\ obs.op = "scroll" /\ obs.awaited
    /\ ~obs.midId /\ ~obs.midText /\ obs.midMatch
    /\ obs.stage = 4 /\ obs.scrolled
    /\ HasMarkerWithId(doc, obs.payload.id)

-----------------------------------------------------------------------------
(* The lifecycle of the markers. *)

\* the ids of the quotes of a set that applyHighlights accepts
ValidIds(quotes) == {quotes[i].id : i \in ValidIn(quotes)}

\* the ids the markers of the document carry
MarkerIds(d) == {d[j].id : j \in MarkerOpens(d)}

\* the quote set recorded by the guard is the one of the last fetch that was ok
AppliedIsLastFetched ==
    /\ lastHighlightUrl = lastRun.url
    /\ lastHighlightSignature = Signature(lastRun.quotes)

\* C11 (as claimed): at every point every marker belongs to a quote of the
\* most recently applied quote set, whatever operation ran last, scrollToQuote
\* included.
C11_MarkersOfAppliedSet ==
    /\ AppliedIsLastFetched
    /\ MarkerIds(doc) \subseteq ValidIds(lastRun.quotes)

\* C11 (amended): every marker belongs to a quote of the most recently applied
\* set or to a ref scrollToQuote wrapped on demand since that apply; a run of
\* refreshHighlights that fetches another set than the last one, or the same
\* for another url, applies it and leaves only markers of that set, none of
\* an earlier set and none made on demand before it.
C11_MarkersOfAppliedSetOrOnDemand ==
    /\ AppliedIsLastFetched
    /\ MarkerIds(doc) \subseteq ValidIds(lastRun.quotes) \cup lastRun.onDemand
    /\ (RunEnded /\ obs.run.fetched /\ ~obs.run.repeat) => obs.run.guardMoved
    /\ (obs.op = "refresh" /\ obs.run.guardMoved)
       => /\ lastRun.onDemand = {}
          /\ MarkerIds(doc) \subseteq ValidIds(lastRun.quotes)
          /\ Cardinality(MarkerOpens(doc)) = obs.run.created
    /\ (obs.op = "scroll" /\ obs.awaited /\ obs.run.guardMoved)
       => /\ lastRun.onDemand = (IF obs.wrapped THEN {obs.payload.id} ELSE {})
          /\ Cardinality(MarkerOpens(doc))
                = obs.run.created + (IF obs.wrapped THEN 1 ELSE 0)

\* a changed quote set is applied while the document holds a marker made on
\* demand: it is destroyed, and the markers of the new set are created
C11_Witness ==
    /\ obs.op = "refresh" /\ obs.run.guardMoved /\ obs.run.hadOnDemand
    /\ obs.run.removed > 0 /\ obs.run.created > 0
    /\ lastRun.quotes = <<QShort, QAba>>
    /\ MarkerIds(doc) = {QAba.id}

\* C16: a run of refreshHighlights whose fetch throws or is answered not ok
\* ends without an error, removes no marker, creates none, leaves the
\* document as it is and leaves lastHighlightUrl and lastHighlightSignature
\* unchanged; scrollToQuote awaiting it goes on.
C16_FailedFetchChangesNothing ==
    (RunEnded /\ ~obs.run.fetched)
    => /\ obs.run.removed = 0
       /\ obs.run.created = 0
       /\ ~obs.run.docChanged
       /\ ~obs.run.guardMoved
       /\ ~obs.run.styledNow

\* the fetch failed on another url than the recorded one while the document
\* held the markers of a quote set: they are still there
C16_Witness ==
    /\ obs.op = "refresh" /\ ~obs.run.fetched
    /\ MarkerOpens(doc) # {}
    /\ lastHighlightSignature # << >>
    /\ normalizeUrl(href) # lastHighlightUrl

-----------------------------------------------------------------------------
(* The Locator's choice among the occurrences it scores. *)

\* t stands before u in document order, or is u
BeforeOrAt(t, u) == t[1] < u[1] \/ (t[1] = u[1] /\ t[2] <= u[2])

\* m is, among the scored occurrences seen, one of the greatest score and
\* the first of these in document order
FirstOfGreatest(m, seen, needle) ==
    \E t \in seen :
        /\ m = [node |-> t[1], start |-> t[2], end |-> t[2] + Len(needle)]
        /\ \A u \in seen : u[3] <= t[3] /\ (u[3] = t[3] => BeforeOrAt(t, u))

\* C19: a match the Locator returns has the greatest context score among the
\* occurrences it scored and is the first of these in document order; it
\* returns no match only when it scored none.
C19_FirstOfGreatestScore ==
    found.called =>
        IF found.m = NoMatch THEN Locator(doc, entry, TRUE).seen = {}
        ELSE FirstOfGreatest(found.m, Locator(doc, entry, TRUE).seen, LocNeedle)

\* two scored occurrences share the greatest score
TiedAtTop(seen) ==
    \E t, u \in seen : t # u /\ t[3] = u[3] /\ \A x \in seen : x[3] <= t[3]

\* the Locator scored two occurrences with the greatest score, in different
\* text nodes, and returned the first
C19_Witness ==
    /\ found.called /\ found.m # NoMatch
    /\ TiedAtTop(Locator(doc, entry, TRUE).seen)
    /\ \E u \in Locator(doc, entry, TRUE).seen : u[1] > found.m.node
    /\ entry.contextBefore # << >>

\* C20: the Locator returns what the same scan without the early return on a
\* perfect context hit returns, for every document and entry.
C20_EarlyReturnPreserves ==
    found.called => found.m = Locator(doc, entry, FALSE).best

\* the early return left occurrences unscored that the scan without it scores
C20_Witness ==
    /\ found.called /\ found.m # NoMatch
    /\ Cardinality(Locator(doc, entry, FALSE).seen)
          > Cardinality(Locator(doc, entry, TRUE).seen)
    /\ found.m = Locator(doc, entry, FALSE).best

-----------------------------------------------------------------------------
(* The Locator at its caps. *)

\* a text node with k occurrences of "aab", and what follows the last
Unit == <<"a", "a", "b">>
Long(k, tail) == Repeat(Unit, k) \o tail

CapTexts == {Unit, Unit \o <<"b">>, <<"b">> \o Unit}

CapDocs ==
    \* one text node with as many occurrences as the cap, one less, one more
    {<<T(Long(k, tail))>> :
        k \in {MatchCap - 1, MatchCap, MatchCap + 1}, tail \in {<< >>, <<"b">>}}
    \* the same followed by another text node
    \cup {<<T(Long(k, tail)), T(s)>> :
            k \in {MatchCap, MatchCap + 1}, tail \in {<< >>, <<"b">>}, s \in CapTexts}
    \* text nodes before and behind the 25,000th of the walk
    \cup {<<T(s1), F(n), T(s2)>> :
            n \in {NodeCap - 2, NodeCap - 1, NodeCap}, s1 \in {Unit}, s2 \in CapTexts}
    \* skipped text nodes count as well
    \cup {<<O("script"), F(n), C, T(s)>> : n \in {NodeCap - 1, NodeCap}, s \in CapTexts}

CapEntries ==
    {Entry(1, x, c[1], c[2]) :
        x \in {Unit, <<"a", "b", "a">>, <<" ">> \o Unit},
        c \in {<< << >>, << >> >>, << << >>, <<"b">> >>,
               << <<"b">>, << >> >>, << <<"b">>, <<"b">> >>}}

InitCap ==
    /\ doc \in CapDocs
    /\ entry \in CapEntries
    /\ found = NotCalled
    /\ Fresh

SpecCap == InitCap /\ [][NextLoc]_vars

\* the occurrences scored in text node i
ScoredIn(r, i) == {t \in r.seen : t[1] = i}

\* what the Locator returns is the first of the greatest score among what
\* it scored, or nothing when it scored nothing
ReturnsBestOf(r, m) ==
    IF r.seen = {} THEN m = NoMatch ELSE FirstOfGreatest(m, r.seen, LocNeedle)

\* the scan as the claim has it: after a cap nothing more is scored
StopsAtCap(r, m) ==
    (r.capped # {} \/ r.stopped) =>
        /\ \A t \in r.seen : VisitIndex(doc, t[1]) <= NodeCap
        /\ r.capped # {} => \A t \in r.seen : t[1] <= Min(r.capped)
        /\ \A i \in r.capped : Cardinality(ScoredIn(r, i)) = MatchCap
        /\ ReturnsBestOf(r, m)

\* the scan as it is: the per-node cap ends the scan of its node, the node
\* cap ends the walk
CapsBoundTheScan(r, m) ==
    /\ \A t \in r.seen : VisitIndex(doc, t[1]) <= NodeCap
    /\ \A i \in 1..Len(doc) : Cardinality(ScoredIn(r, i)) <= MatchCap
    /\ \A i \in r.capped : Cardinality(ScoredIn(r, i)) = MatchCap
    /\ r.stopped => VisitIndex(doc, Len(doc)) > NodeCap
    /\ ~r.done =>
          \A i \in r.capped : \A j \in (i + 1)..Len(doc) :
              ( /\ Scannable(doc, j) /\ VisitIndex(doc, j) <= NodeCap
                /\ indexOf(toLowerCase(doc[j].v), toLowerCase(LocNeedle), 0) >= 0 )
              => ScoredIn(r, j) # {}
    /\ ReturnsBestOf(r, m)

\* C21 (as claimed): when the Locator meets more than 250 occurrences in one
\* text node or more than 25,000 text nodes, it scores no later occurrence
\* in that node or in any later node, and returns the best of what it scored
\* up to there, or nothing.
C21_StopsAtEitherCap ==
    found.called => StopsAtCap(Locator(doc, entry, TRUE), found.m)

\* C21 (amended): at more than 250 occurrences in one text node the Locator
\* scores the first 250 of that node and goes on with the next text node; at
\* more than 25,000 text nodes it scores nothing further; it returns the
\* first of the greatest score among all it scored, or nothing.
C21_CapsBoundTheScan ==
    found.called => CapsBoundTheScan(Locator(doc, entry, TRUE), found.m)

\* a text node was left at the per-node cap and the match returned lies in a
\* later text node
C21_Witness ==
    /\ found.called /\ found.m # NoMatch
    /\ Locator(doc, entry, TRUE).capped # {}
    /\ found.m.node > Min(Locator(doc, entry, TRUE).capped)

\* the occurrences in the text nodes the scan goes through to their end:
\* long enough to be scanned, as long in lower case as they are, and within
\* the node cap
FullyScanned(d, needle) ==
    {o \in Occurrences(d, needle) :
        /\ Len(d[o[1]].v) >= MinNodeLen
        /\ Len(toLowerCase(d[o[1]].v)) = Len(d[o[1]].v)
        /\ VisitIndex(d, o[1]) <= NodeCap}

AllScored(r, occ) ==
    (~r.done /\ r.capped = {}) =>
        \A o \in occ : \E t \in r.seen : t[1] = o[1] /\ t[2] = o[2]

\* C22 (as claimed): within each scanned text node every index at which the
\* needle occurs, case-insensitively, is scored as a candidate (the per-node
\* cap and the early return apart), an occurrence that overlaps an earlier
\* one included.
C22_EveryOccurrenceScored ==
    (found.called /\ ~TooShort(LocNeedle)) =>
        AllScored(Locator(doc, entry, TRUE), FullyScanned(doc, LocNeedle))

\* the elements in which no match may lie
NoMatchInside(t) ==
    \/ t.tag \in {"script", "style", "noscript", "textarea", "input", "select", "option"}
    \/ IsMarker(t)

InsideForbidden(d, i) == \E j \in Ancestors(d, i) : NoMatchInside(d[j])

\* the text nodes inside such elements in which the needle occurs
HiddenOccurrences(d, needle) ==
    {i \in 1..Len(d) :
        /\ IsText(d[i]) /\ InsideForbidden(d, i)
        /\ indexOf(toLowerCase(d[i].v), toLowerCase(needle), 0) >= 0}

\* C23: the Locator never returns a match in a text node inside a script,
\* style, noscript, textarea, input, select or option element or inside a
\* highlight marker, even when that node holds the only or the best
\* occurrence of the needle.
C23_NoMatchInSkippedNode ==
    (found.called /\ found.m # NoMatch) => ~InsideForbidden(doc, found.m.node)

\* the needle occurs in a skipped text node and nowhere else, and the
\* Locator has returned nothing
C23_Witness ==
    /\ found.called /\ ~TooShort(LocNeedle)
    /\ HiddenOccurrences(doc, LocNeedle) # {}
    /\ LocOcc = {}
    /\ found.m = NoMatch

-----------------------------------------------------------------------------
(* The progress reporter (popup.js:1380-1441, 1720-1731). *)

RECURSIVE GCD(_, _)
GCD(a, b) == IF b = 0 THEN a ELSE GCD(b, a % b)

RECURSIVE IsPowerOfTwo(_)
IsPowerOfTwo(n) == n = 1 \/ (n > 1 /\ n % 2 = 0 /\ IsPowerOfTwo(n \div 2))

\* a / b is a double without rounding error: a binary fraction
ExactQuotient(a, b) == IsPowerOfTwo(b \div GCD(a, b))

\* (a rounding that drops the fraction)
Floors(num, den, exact) == {num \div den}

\* Math.round(x) for the double x >= 0 the code computes for num / den: the
\* integer next to num / den, the upper one at a half; where num / den is a
\* half and the double carries a rounding error, the error decides
Rounds(num, den, exact) ==
    LET up == (2 * num + den) \div (2 * den)
    IN  IF (2 * num + den) % (2 * den) = 0 /\ ~exact THEN {up - 1, up} ELSE {up}

\* clampProgress of a number that is an integer
clampProgress(p) == Max2(0, Min2(100, p))

\* Math.max(1, scrollHeight - clientHeight)
Denom(range) == Max2(1, range)

\* computeScrollProgressPercent, (scrollTop / denom) * 100 rounded and
\* clamped: the values it can return
computeScrollProgressPercent(scrollTop, range) ==
    {clampProgress(raw) :
        raw \in Rounds(scrollTop * 100, Denom(range), ExactQuotient(scrollTop, Denom(range)))}

\* the top the "scrollToProgress" handler scrolls to, (progress / 100) * denom
\* rounded (popup.js:1721-1726)
ScrollTopFor(progress, range) ==
    Rounds(progress * Denom(range), 100, ExactQuotient(progress, 100))

\* window.scrollTo: the position is kept within the scrollable range
scrollTo(top, range) == Max2(0, Min2(top, Max2(0, range)))

\* a timer id that setTimeout can return: one no pending timer has
TimerIds == 1..2
NewTimerId == Min(TimerIds \ timers)

\* the scrollable ranges a page can have, the positions a reader scrolls to,
\* the progress values a "scrollToProgress" message carries
Ranges == {0, 8, 100}
ScrollStops(range) == {0, 1, 2, 3, range \div 2, range} \cap 0..range
Percents == {-5, 0, 1, 2, 50, 100, 250}

pageVars == <<doc, styled, href, lastHighlightUrl, lastHighlightSignature,
              calls, lastRun, entry, found, selection, popupVars>>

\* a page whose highlighter takes no part
PageIdle ==
    /\ doc = << >>
    /\ selection = NoSelection
    /\ PopupIdle
    /\ entry = NoEntry
    /\ found = NotCalled
    /\ PageFresh

\* the content script has just run: nothing sent, no timer, the 1000 ms
\* trigger set (popup.js:1380-1381, 1441)
InitProg ==
    /\ PageIdle
    /\ lastSentProgress = NeverSent
    /\ sendTimer = 0
    /\ scrollRange \in Ranges
    /\ scrollY = 0
    /\ timers = {}
    /\ due = [initial |-> TRUE, restore |-> 0, events |-> {}]
    /\ wait = NoWait
    /\ StoreIdle

\* (a test that finds no timer pending)
NeverPending == FALSE

\* (a test that finds a timer pending always)
AlwaysPending == TRUE

\* if (sendTimer) (popup.js:1412)
TimerPending == sendTimer # 0

\* scheduleSendProgress up to its return: the timer it sets, when it sets one
scheduleSendProgress ==
    /\ sendTimer' = IF TimerPending THEN sendTimer ELSE NewTimerId
    /\ timers' = IF TimerPending THEN timers ELSE timers \cup {NewTimerId}
    /\ UNCHANGED lastSentProgress

Triggered(by) ==
    [op |-> "trigger", by |-> by, pending |-> sendTimer # 0, timersBefore |-> timers]

\* the "scroll" and "resize" listeners (popup.js:1437-1438)
DomEvent(e) ==
    /\ e \in due.events
    /\ due' = [due EXCEPT !.events = @ \ {e}]
    /\ scheduleSendProgress
    /\ obs' = Triggered(e)
    /\ UNCHANGED <<scrollY, scrollRange, pageVars, wait, storeVars>>

\* setTimeout(scheduleSendProgress, 1000) fires (popup.js:1441)
InitialTrigger ==
    /\ due.initial
    /\ due' = [due EXCEPT !.initial = FALSE]
    /\ scheduleSendProgress
    /\ obs' = Triggered("initial")
    /\ UNCHANGED <<scrollY, scrollRange, pageVars, wait, storeVars>>

\* setTimeout(scheduleSendProgress, 250) fires (popup.js:1729)
RestoreTrigger ==
    /\ due.restore > 0
    /\ due' = [due EXCEPT !.restore = @ - 1]
    /\ scheduleSendProgress
    /\ obs' = Triggered("restore")
    /\ UNCHANGED <<scrollY, scrollRange, pageVars, wait, storeVars>>

\* (a test that lets a difference of one point through)
SameProgress(progress, last) == progress = last

\* the progress has not meaningfully changed (popup.js:1424)
TooClose(progress, last) == Abs(progress - last) < MinDelta

\* the callback of the report timer, progress being what
\* computeScrollProgressPercent returns (popup.js:1415-1433)
Report(progress) ==
    IF TooClose(progress, lastSentProgress)
    THEN /\ UNCHANGED lastSentProgress
         /\ obs' = [op |-> "fire", sent |-> FALSE, progress |-> progress,
                    previous |-> lastSentProgress]
    ELSE /\ lastSentProgress' = progress
         /\ obs' = [op |-> "fire", sent |-> TRUE, progress |-> progress,
                    previous |-> lastSentProgress]

TimerFires(id) ==
    /\ id \in timers
    /\ timers' = timers \ {id}
    /\ sendTimer' = 0
    /\ \E progress \in computeScrollProgressPercent(scrollY, scrollRange) : Report(progress)
    /\ UNCHANGED <<scrollY, scrollRange, due, pageVars, wait, storeVars>>

\* the reader scrolls
UserScroll(y) ==
    /\ y \in ScrollStops(scrollRange) /\ y # scrollY
    /\ scrollY' = y
    /\ due' = [due EXCEPT !.events = @ \cup {"scroll"}]
    /\ obs' = NoObs
    /\ UNCHANGED <<lastSentProgress, sendTimer, timers, scrollRange, pageVars, wait, storeVars>>

\* the window changes its height
Resize(range) ==
    /\ range # scrollRange
    /\ scrollRange' = range
    /\ scrollY' = scrollTo(scrollY, range)
    /\ due' = [due EXCEPT !.events =
                  @ \cup {"resize"} \cup (IF scrollY > range THEN {"scroll"} ELSE {})]
    /\ obs' = NoObs
    /\ UNCHANGED <<lastSentProgress, sendTimer, timers, pageVars, wait, storeVars>>

\* the document changes its height (content arrives, images load): no
\* event of the window, and a scroll event when the position had to follow
Reflow(range) ==
    /\ range # scrollRange
    /\ scrollRange' = range
    /\ scrollY' = scrollTo(scrollY, range)
    /\ due' = [due EXCEPT !.events = @ \cup (IF scrollY > range THEN {"scroll"} ELSE {})]
    /\ obs' = NoObs
    /\ UNCHANGED <<lastSentProgress, sendTimer, timers, pageVars, wait, storeVars>>

\* (a handler that scrolls and sets no trigger)
ScrolledOnly(top) ==
    /\ scrollY' = scrollTo(top, scrollRange)
    /\ due' = [due EXCEPT !.events = IF scrollTo(top, scrollRange) # scrollY
                                     THEN @ \cup {"scroll"} ELSE @]

\* the position after window.scrollTo({top}) of the "scrollToProgress" handler
ScrolledTo(top) ==
    /\ scrollY' = scrollTo(top, scrollRange)
    /\ due' = [due EXCEPT !.restore = @ + 1,
                          !.events = IF scrollTo(top, scrollRange) # scrollY
                                     THEN @ \cup {"scroll"} ELSE @]

\* a "scrollToProgress" message (popup.js:1720-1731)
MsgScrollToProgress(p) ==
    /\ due.restore < MaxRestores
    /\ \E top \in ScrollTopFor(clampProgress(p), scrollRange) : ScrolledTo(top)
    /\ obs' = [op |-> "restore", asked |-> p, progress |-> clampProgress(p)]
    /\ UNCHANGED <<lastSentProgress, sendTimer, timers, scrollRange, pageVars, wait, storeVars>>

NextProg ==
    \/ \E e \in {"scroll", "resize"} : DomEvent(e)
    \/ InitialTrigger
    \/ RestoreTrigger
    \/ \E id \in TimerIds : TimerFires(id)
    \/ \E y \in 0..Max(Ranges) : UserScroll(y)
    \/ \E range \in Ranges : Resize(range)
    \/ \E range \in Ranges : Reflow(range)
    \/ \E p \in Percents : MsgScrollToProgress(p)

SpecProg == InitProg /\ [][NextProg]_vars

\* C12: at most one report timer is pending at any time, and sendTimer holds
\* it; a trigger that finds a timer pending sets no timer and leaves nothing
\* behind; a timer that fires is gone and has cleared sendTimer, whether it
\* sends or not.
C12_OnePendingTimer ==
    /\ Cardinality(timers) <= 1
    /\ timers = (IF sendTimer = 0 THEN {} ELSE {sendTimer})
    /\ (obs.op = "trigger" /\ obs.pending) => timers = obs.timersBefore
    /\ (obs.op = "trigger" /\ ~obs.pending) => Cardinality(timers) = 1
    /\ obs.op = "fire" => (timers = {} /\ sendTimer = 0)

\* the 250 ms trigger arrived while a timer was pending, the 1000 ms trigger
\* and a scroll event still to come
C12_Witness ==
    /\ obs.op = "trigger" /\ obs.by = "restore" /\ obs.pending
    /\ due.initial /\ "scroll" \in due.events
    /\ Cardinality(timers) = 1

\* C13: a pageProgress message carries a progress at least 2 points away from
\* the one sent before it (-1 when none was); a timer that fires with a
\* smaller difference sends nothing and leaves lastSentProgress as it was.
C13_ReportsDifferByTwo ==
    obs.op = "fire" =>
        /\ obs.sent <=> Abs(obs.progress - obs.previous) >= MinDelta
        /\ obs.sent => lastSentProgress = obs.progress
        /\ ~obs.sent => lastSentProgress = obs.previous
        /\ obs.progress \in 0..100

\* a timer fired one point away from the progress sent last and sent nothing
C13_Witness ==
    /\ obs.op = "fire" /\ ~obs.sent
    /\ obs.previous # NeverSent
    /\ Abs(obs.progress - obs.previous) = 1

\* top is round(p / 100 * d): an integer no more than a half away
IsRounded(top, p, d) == 2 * Abs(100 * top - p * d) <= 100

\* what a "scrollToProgress" step leaves: the position, one 250 ms trigger
\* more, the report timer and lastSentProgress as they were
RestoreStep ==
    obs'.op = "restore" =>
        /\ obs'.progress = (IF obs'.asked < 0 THEN 0
                            ELSE IF obs'.asked > 100 THEN 100 ELSE obs'.asked)
        /\ \E top \in 0..(Denom(scrollRange) + 1) :
              /\ IsRounded(top, obs'.progress, Denom(scrollRange))
              /\ scrollY' = Min2(top, scrollRange)
        /\ due'.restore = due.restore + 1
        /\ due'.initial = due.initial
        /\ timers' = timers /\ sendTimer' = sendTimer
        /\ lastSentProgress' = lastSentProgress
        /\ scrollRange' = scrollRange

\* what the 250 ms trigger and the timer after it leave
FollowUp ==
    /\ (obs.op = "trigger" /\ obs.by = "restore") =>
          /\ Cardinality(timers) = 1
          /\ obs.pending => timers = obs.timersBefore
          /\ ~obs.pending => obs.timersBefore = {}
    /\ (obs.op = "fire" /\ obs.sent) => Abs(obs.progress - obs.previous) >= MinDelta
    /\ (obs.op = "fire" /\ ~obs.sent) => lastSentProgress = obs.previous

\* C24: a "scrollToProgress" message scrolls the page to
\* round(clamp(percent) / 100 * max(1, scrollHeight - clientHeight)), as far
\* as the page scrolls, and schedules exactly one follow-up evaluation: the
\* 250 ms trigger, which sets the 750 ms report timer unless one is pending;
\* the evaluation sends "pageProgress" only when the progress is at least 2
\* points away from lastSentProgress.
C24_RestoreSchedulesOneReport == [][RestoreStep]_vars /\ []FollowUp

\* a message asking for 250 percent has scrolled a page of range 100 to its
\* end while a report timer was pending
C24_Witness ==
    /\ obs.op = "restore" /\ obs.asked = 250
    /\ scrollRange = 100 /\ scrollY = 100
    /\ sendTimer # 0 /\ due.restore = 1

\* C25 (as claimed): once the 1000 ms trigger after page load and the 750 ms
\* timer that follows it have fired, a "pageProgress" message has been sent,
\* whatever the scroll position.
C25_InitialReportSent ==
    (~due.initial /\ timers = {}) => lastSentProgress # NeverSent

-----------------------------------------------------------------------------
(* SpecRT: a progress restored and read back. *)

InitRT ==
    /\ PageIdle
    /\ lastSentProgress = NeverSent
    /\ sendTimer = 0
    /\ scrollRange \in 1..MaxRange
    /\ scrollY = 0
    /\ timers = {}
    /\ due = [initial |-> FALSE, restore |-> 0, events |-> {}]
    /\ wait = NoWait
    /\ StoreIdle

\* computeScrollProgressPercent evaluated after a "scrollToProgress" message
ComputeProgress ==
    /\ obs.op = "restore"
    /\ \E progress \in computeScrollProgressPercent(scrollY, scrollRange) :
          obs' = [op |-> "computed", asked |-> obs.progress, progress |-> progress]
    /\ UNCHANGED <<progVars, pageVars, wait, storeVars>>

NextRT ==
    \/ \E p \in 0..100 : MsgScrollToProgress(p)
    \/ ComputeProgress

SpecRT == InitRT /\ [][NextRT]_vars

\* C14 (as claimed): for every percent p in 0..100 and every scrollable range
\* D >= 1, the progress computed after scrollToProgress(p) is p.
C14_RoundTrip ==
    obs.op = "computed" => obs.progress = obs.asked

\* C14 (amended): the same for every scrollable range D >= 100.
C14_RoundTripOnTallPages ==
    (obs.op = "computed" /\ scrollRange >= 100) => obs.progress = obs.asked

\* p came back on a page where p percent of the range lies half way between
\* two pixels
C14_Witness ==
    /\ obs.op = "computed" /\ scrollRange > 100
    /\ (obs.asked * scrollRange) % 100 = 50
    /\ obs.progress = obs.asked

-----------------------------------------------------------------------------
(* The popup's wait for the navigated tab: openQuoteAtLocation
   (popup.js:1033-1086) and goToSelectedProgress (popup.js:605-669). *)

\* the period of the poll and the two timeouts, in milliseconds
PollMs == 250
QuoteTimeoutMs == 12000
ProgressTimeoutMs == 10000

\* by how many milliseconds a callback of the interval can run late
MaxLate == 1

WaitOps == {"openQuoteAtLocation", "goToSelectedProgress"}

TimeoutMs(op) ==
    IF op = "openQuoteAtLocation" THEN QuoteTimeoutMs ELSE ProgressTimeoutMs

\* the messages sent after the wait, in their order
FollowUps(op) ==
    IF op = "openQuoteAtLocation"
       THEN <<"refreshHighlights", "scrollToQuote">>
       ELSE <<"scrollToProgress", "refreshHighlights">>

\* the status line before, after, and after a failure
Opening(op) ==
    IF op = "openQuoteAtLocation" THEN "Opening quote..." ELSE "Opening chapter..."
Succeeded(op) ==
    IF op = "openQuoteAtLocation" THEN "Jumped to quote." ELSE "Scrolled."
Failed(op) ==
    IF op = "openQuoteAtLocation"
       THEN "Opened, but couldn't jump to quote. Try again."
       ELSE "Opened, but couldn't scroll (content script not ready). Try again."

\* the tab navigated and the page asked for; what chrome.tabs.onUpdated
\* reports: a tab, a status, the tab's URL (NoUrl: none that parses)
TabId == 1
TargetUrl == Url("u1", "")
TabIds == {TabId, 2}
TabStatuses == {"loading", "complete"}
TabUrls == {TargetUrl, Url("u1", "h"), Url("u2", ""), NoUrl}

InitWait ==
    /\ PageIdle
    /\ RestIdle

\* no active tab: the page is opened in a new tab and nothing is awaited
OpenInNewTab(op) ==
    /\ wait.pc = "idle"
    /\ wait' = [NoWait EXCEPT !.op = op, !.pc = "end", !.opened = "create"]
    /\ UNCHANGED <<progVars, pageVars, obs, storeVars>>

\* up to the await of the promise: chrome.tabs.update, then the executor,
\* which adds the listener and sets the interval
NavigateTab(op) ==
    /\ wait.pc = "idle"
    /\ wait' = [NoWait EXCEPT !.op = op, !.pc = "wait", !.opened = "update",
                              !.timeoutMs = TimeoutMs(op), !.listener = TRUE,
                              !.timer = TRUE, !.status = Opening(op)]
    /\ UNCHANGED <<progVars, pageVars, obs, storeVars>>

\* (a test that never finds the wait done)
NeverDone(done) == FALSE

\* if (done) return
AlreadyDone(done) == done

cleanup(w, cause, seen) ==
    IF AlreadyDone(w.done)
       THEN w
       ELSE [w EXCEPT !.done = TRUE, !.listener = FALSE, !.resolved = @ + 1,
                      !.cause = cause, !.at = w.now, !.seen = seen]

\* the test of the listener
Arrived(updatedTabId, status, url) ==
    /\ updatedTabId = TabId
    /\ status = "complete"
    /\ url # NoUrl
    /\ normalizeUrl(url) = TargetUrl

\* the listener, called with an event of chrome.tabs.onUpdated
listener(updatedTabId, status, url) ==
    /\ wait.listener
    /\ updatedTabId \in TabIds /\ status \in TabStatuses /\ url \in TabUrls
    /\ wait' = IF Arrived(updatedTabId, status, url)
                  THEN cleanup(wait, "complete", <<updatedTabId, status, url>>)
                  ELSE [wait EXCEPT !.seen = <<updatedTabId, status, url>>]
    /\ UNCHANGED <<progVars, pageVars, obs, storeVars>>

\* Date.now() - start > timeoutMs
TimedOut(now, timeoutMs) == now > timeoutMs

\* a callback of the interval, late milliseconds after it was due
IntervalFires(late) ==
    /\ wait.timer
    /\ late \in 0..MaxLate
    /\ LET now == (wait.ticks + 1) * PollMs + late
           w == [wait EXCEPT !.ticks = @ + 1, !.now = now]
       IN  wait' = IF TimedOut(now, wait.timeoutMs)
                      THEN cleanup([w EXCEPT !.timer = FALSE], "timeout", w.seen)
                      ELSE w
    /\ UNCHANGED <<progVars, pageVars, obs, storeVars>>

\* the promise is resolved: the function goes on and sends the first message
Resume ==
    /\ wait.pc = "wait"
    /\ wait.resolved > 0
    /\ wait' = [wait EXCEPT !.pc = "first", !.sent = <<FollowUps(wait.op)[1]>>]
    /\ UNCHANGED <<progVars, pageVars, obs, storeVars>>

\* chrome.tabs.sendMessage is answered: the second message is sent, or the
\* operation ends
Delivered ==
    /\ wait.pc \in {"first", "second"}
    /\ wait' = IF wait.pc = "first"
                  THEN [wait EXCEPT !.pc = "second",
                                    !.sent = Append(@, FollowUps(wait.op)[2])]
                  ELSE [wait EXCEPT !.pc = "end", !.status = Succeeded(wait.op)]
    /\ UNCHANGED <<progVars, pageVars, obs, storeVars>>

\* chrome.tabs.sendMessage rejects: the catch block
Rejected ==
    /\ wait.pc \in {"first", "second"}
    /\ wait' = [wait EXCEPT !.pc = "end", !.status = Failed(wait.op)]
    /\ UNCHANGED <<progVars, pageVars, obs, storeVars>>

NextWait ==
    \/ \E op \in WaitOps : OpenInNewTab(op)
    \/ \E op \in WaitOps : NavigateTab(op)
    \/ \E id \in TabIds, status \in TabStatuses, url \in TabUrls :
          listener(id, status, url)
    \/ \E late \in 0..MaxLate : IntervalFires(late)
    \/ Resume
    \/ Delivered
    \/ Rejected

SpecWait == InitWait /\ [][NextWait]_vars

\* the interval keeps firing while it is set, and a function whose promise
\* is resolved goes on
SpecWaitFair ==
    /\ SpecWait
    /\ WF_vars(\E late \in 0..MaxLate : IntervalFires(late))
    /\ WF_vars(Resume)

\* the wait resolved as the code allows: once, on a "complete" event of the
\* tab at the target URL or at the first callback of the interval that finds
\* more than the timeout elapsed
ResolvedAsAllowed ==
    /\ wait.resolved = 1
    /\ wait.done /\ ~wait.listener
    /\ wait.cause \in {"complete", "timeout"}
    /\ wait.cause = "complete" =>
          /\ wait.seen[1] = TabId /\ wait.seen[2] = "complete"
          /\ normalizeUrl(wait.seen[3]) = TargetUrl
          /\ wait.at <= wait.timeoutMs
    /\ wait.cause = "timeout" =>
          /\ wait.at > wait.timeoutMs
          /\ wait.at - PollMs - MaxLate <= wait.timeoutMs
          /\ ~wait.timer

\* C15: the wait of openQuoteAtLocation and goToSelectedProgress for the
\* navigated tab resolves at most once, and only on a "complete" event of the
\* tab at the normalized target URL or once more than the timeout (12000 ms,
\* 10000 ms) has elapsed at a callback of the 250 ms interval; no follow-up
\* message is sent before that; and every wait is followed by the first
\* follow-up message, whichever of the two ended it.
C15_WaitEndsOnce ==
    /\ [](/\ wait.resolved <= 1
          /\ wait.resolved = 1 => ResolvedAsAllowed
          /\ wait.sent # << >> => ResolvedAsAllowed
          /\ wait.timeoutMs = (IF wait.opened = "update" THEN TimeoutMs(wait.op) ELSE 0))
    /\ (wait.pc = "wait") ~> (wait.sent # << >> /\ wait.sent[1] = FollowUps(wait.op)[1])

\* a wait ended by the timeout, with both follow-up messages sent after it
C15_Witness ==
    /\ wait.cause = "timeout"
    /\ wait.pc = "end"
    /\ wait.sent = FollowUps(wait.op)
    /\ wait.status = Succeeded(wait.op)

-----------------------------------------------------------------------------
(* The store of the service worker: the handlers of
   chrome.runtime.onMessage (background.js:241-622). Strings that the code
   trims are sequences of characters; ids are numbers, as makeId returns
   them, 0 standing for no id. *)

\* how many store messages are received, and how far the clock runs
MaxMessages == 2
MaxClock == 2

\* an object without fields, a field test, delete obj[field]
NoFields == [f \in {} |-> 0]
Has(obj, field) == field \in DOMAIN obj
Without(obj, field) == [f \in DOMAIN obj \ {field} |-> obj[f]]

\* data.pages[url] || {}
PageOf(data, url) == IF url \in DOMAIN data.pages THEN data.pages[url] ELSE NoFields

SetPage(data, url, page) == [data EXCEPT !.pages = (url :> page) @@ @]
SetMaterial(data, id, m) == [data EXCEPT !.materials = (id :> m) @@ @]

\* what a handler ends with: the data, whether setAllData was called with
\* it, the response, the ids issued
Result(data, write, resp, ids) ==
    [data |-> data, write |-> write, resp |-> resp, issued |-> ids]
RespOk == [ok |-> TRUE]
Err(e) == [ok |-> FALSE, error |-> e]

\* (a store that finds no chapter)
NeverExists(material, url) == FALSE

\* (c.url === url for some chapter c)
chapterExists(material, url) ==
    \E i \in 1..Len(material.chapters) : material.chapters[i].url = url

nextChapterOrder(material) ==
    Max({0} \cup {material.chapters[i].order : i \in 1..Len(material.chapters)}) + 1

\* Array.prototype.sort by order: stable
RECURSIVE SortByOrder(_)
SortByOrder(chapters) ==
    IF chapters = << >>
       THEN << >>
       ELSE LET least == Min({chapters[i].order : i \in 1..Len(chapters)})
                i == Min({j \in 1..Len(chapters) : chapters[j].order = least})
            IN  <<chapters[i]>>
                \o SortByOrder(SubSeq(chapters, 1, i - 1)
                               \o SubSeq(chapters, i + 1, Len(chapters)))

\* (a store that never renumbers its chapters)
KeepsOrders(chapters) == chapters

normalizeChapters(chapters) ==
    LET sorted == SortByOrder(chapters)
    IN  [idx \in 1..Len(sorted) |-> [order |-> idx] @@ sorted[idx]]

updateMaterialChapterProgressFromPages(material, pages) ==
    IF material.chapters = << >>
       THEN material
       ELSE [material EXCEPT !.chapters =
                [i \in 1..Len(@) |->
                    LET c == @[i]
                        progress == IF c.url \in DOMAIN pages /\ Has(pages[c.url], "progress")
                                       THEN pages[c.url].progress
                                       ELSE c.progress
                    IN  [progress |-> clampProgress(progress)] @@ c]]

\* a bookmark that migrateBookmarkIds gives an id
IsLegacy(b) == ~(Has(b, "id") /\ b.id # 0)

\* the legacy bookmarks that come before bookmark i of material id, in the
\* order of the loops of migrateBookmarkIds
LegacyUpTo(data, id, i) ==
    {<<m, j>> \in UNION {{m} \X (1..Len(data.materials[m].bookmarks)) : m \in DOMAIN data.materials} :
        /\ IsLegacy(data.materials[m].bookmarks[j])
        /\ m < id \/ (m = id /\ j <= i)}

LegacyCount(data) ==
    Cardinality({<<m, j>> \in UNION {{m} \X (1..Len(data.materials[m].bookmarks)) : m \in DOMAIN data.materials} :
                    IsLegacy(data.materials[m].bookmarks[j])})

\* migrateBookmarkIds: the data with an id in every bookmark
migrateBookmarkIds(data, ids) ==
    [data EXCEPT !.materials =
        [id \in DOMAIN @ |->
            [@[id] EXCEPT !.bookmarks =
                [i \in 1..Len(@) |->
                    IF IsLegacy(@[i])
                       THEN [id |-> ids + Cardinality(LegacyUpTo(data, id, i))] @@ @[i]
                       ELSE @[i]]]]]

\* the handlers from their getAllData on: msg the message, data what
\* getAllData returned, now the clock, ids the ids issued so far

\* (a page that never ignores the scroll progress)
NeverIgnores(existing) == FALSE

\* existing.ignoreScrollProgress === true (background.js:254)
IgnoresScroll(existing) ==
    Has(existing, "ignoreScrollProgress") /\ existing.ignoreScrollProgress = TRUE

pageProgress(msg, data, now, ids) ==
    LET url == normalizeUrl(msg.url)
        existing == PageOf(data, url)
        ignoreScrollProgress == IgnoresScroll(existing)
        title == IF msg.title # << >> THEN msg.title
                 ELSE IF Has(existing, "title") THEN existing.title ELSE << >>
        page == [title |-> title, updatedAt |-> now]
                @@ (IF ignoreScrollProgress
                       THEN NoFields
                       ELSE [progress |-> clampProgress(msg.progress)])
                @@ existing
        paged == SetPage(data, url, page)
        next == [paged EXCEPT !.materials =
                    [id \in DOMAIN @ |->
                        IF chapterExists(@[id], url)
                           THEN updateMaterialChapterProgressFromPages(@[id], paged.pages)
                           ELSE @[id]]]
    IN  Result(next, TRUE, RespOk, ids)

getData(msg, data, now, ids) ==
    LET changed == LegacyCount(data) > 0
    IN  Result(migrateBookmarkIds(data, ids), changed, RespOk, ids + LegacyCount(data))

setPageStatus(msg, data, now, ids) ==
    LET url == normalizeUrl(msg.url)
        page == [status |-> msg.status, updatedAt |-> now] @@ PageOf(data, url)
    IN  Result(SetPage(data, url, page), TRUE, RespOk, ids)

setIgnoreScrollProgress(msg, data, now, ids) ==
    LET url == normalizeUrl(msg.url)
        page == [ignoreScrollProgress |-> msg.ignoreScrollProgress, updatedAt |-> now]
                @@ PageOf(data, url)
    IN  Result(SetPage(data, url, page), TRUE, RespOk, ids)

\* (a page marked finished by its status alone)
MarkStatusOnly(existing, now) ==
    [status |-> "finished", updatedAt |-> now] @@ existing

\* the record of a page marked finished (background.js:329-335)
MarkFinished(existing, now) ==
    [status |-> "finished", progress |-> 100,
     ignoreScrollProgress |-> TRUE, updatedAt |-> now] @@ existing

setPageFinished(msg, data, now, ids) ==
    LET url == normalizeUrl(msg.url)
        existing == PageOf(data, url)
        page == IF msg.finished
                   THEN MarkFinished(existing, now)
                   ELSE [ignoreScrollProgress |-> FALSE, updatedAt |-> now]
                        @@ Without(existing, "status")
    IN  Result(SetPage(data, url, page), TRUE, RespOk, ids)

\* title || "Untitled material" (here "U")
Untitled == <<"U">>

createMaterial(msg, data, now, ids) ==
    LET materialId == ids + 1
        material == [title |-> IF trim(msg.title) # << >> THEN trim(msg.title) ELSE Untitled,
                     indexUrl |-> normalizeUrl(msg.indexUrl),
                     kind |-> IF msg.kind # "" THEN msg.kind ELSE "multi",
                     chapters |-> << >>,
                     bookmarks |-> << >>]
    IN  Result(SetMaterial(data, materialId, material), TRUE,
               [ok |-> TRUE, materialId |-> materialId], ids + 1)

deleteMaterial(msg, data, now, ids) ==
    IF msg.materialId \notin DOMAIN data.materials
       THEN Result(data, FALSE, Err("material_not_found"), ids)
       ELSE Result([data EXCEPT !.materials =
                       [id \in DOMAIN @ \ {msg.materialId} |-> @[id]]],
                   TRUE, RespOk, ids)

\* the chapter addChapter appends
NewChapter(data, material, url) ==
    [url |-> url, order |-> nextChapterOrder(material),
     progress |-> clampProgress(IF Has(PageOf(data, url), "progress")
                                   THEN PageOf(data, url).progress ELSE 0)]
    @@ (IF Has(PageOf(data, url), "title") /\ PageOf(data, url).title # << >>
           THEN [title |-> PageOf(data, url).title]
           ELSE NoFields)

addChapter(msg, data, now, ids) ==
    LET url == normalizeUrl(msg.url) IN
    IF msg.materialId \notin DOMAIN data.materials
       THEN Result(data, FALSE, Err("material_not_found"), ids)
    ELSE IF chapterExists(data.materials[msg.materialId], url)
       THEN Result(data, FALSE, [ok |-> TRUE, already |-> TRUE], ids)
    ELSE LET material == data.materials[msg.materialId]
             next == [material EXCEPT !.chapters =
                         Append(@, NewChapter(data, material, url))]
         IN  Result(SetMaterial(data, msg.materialId, next), TRUE, RespOk, ids)

deleteChapter(msg, data, now, ids) ==
    LET url == normalizeUrl(msg.url) IN
    IF msg.materialId \notin DOMAIN data.materials
       THEN Result(data, FALSE, Err("material_not_found"), ids)
    ELSE LET material == data.materials[msg.materialId]
             filtered == SelectSeq(material.chapters, LAMBDA c : c.url # url)
             nextBookmarks ==
                 SelectSeq(material.bookmarks, LAMBDA b : normalizeUrl(b.url) # url)
             next == [material EXCEPT !.chapters = normalizeChapters(filtered),
                                      !.bookmarks = nextBookmarks]
         IN  IF Len(filtered) = Len(material.chapters)
                THEN Result(data, FALSE, Err("chapter_not_found"), ids)
                ELSE Result(SetMaterial(data, msg.materialId, next), TRUE,
                            [ok |-> TRUE,
                             removedQuotesCount |->
                                 Len(material.bookmarks) - Len(nextBookmarks)],
                            ids)

renameChapter(msg, data, now, ids) ==
    LET url == normalizeUrl(msg.url)
        title == trim(msg.title)
    IN
    IF msg.materialId \notin DOMAIN data.materials
       THEN Result(data, FALSE, Err("material_not_found"), ids)
    ELSE LET material == data.materials[msg.materialId]
             renamed == [i \in 1..Len(material.chapters) |->
                            LET c == material.chapters[i]
                            IN  IF c.url # url THEN c
                                ELSE IF title # << >> THEN [title |-> title] @@ c
                                ELSE Without(c, "title")]
             next == [material EXCEPT !.chapters = normalizeChapters(renamed)]
         IN  IF ~chapterExists(material, url)
                THEN Result(data, FALSE, Err("chapter_not_found"), ids)
                ELSE Result(SetMaterial(data, msg.materialId, next), TRUE, RespOk, ids)

moveChapter(msg, data, now, ids) ==
    LET url == normalizeUrl(msg.url) IN
    IF msg.materialId \notin DOMAIN data.materials
       THEN Result(data, FALSE, Err("material_not_found"), ids)
    ELSE LET material == data.materials[msg.materialId]
             sorted == normalizeChapters(material.chapters)
         IN  IF ~chapterExists(material, url)
                THEN Result(data, FALSE, Err("chapter_not_found"), ids)
                ELSE LET idx == Min({i \in 1..Len(sorted) : sorted[i].url = url})
                         swapWith == IF msg.direction = "up" THEN idx - 1 ELSE idx + 1
                         swapped == [i \in 1..Len(sorted) |->
                                        IF i = idx THEN sorted[swapWith]
                                        ELSE IF i = swapWith THEN sorted[idx]
                                        ELSE sorted[i]]
                         next == [material EXCEPT !.chapters = normalizeChapters(swapped)]
                     IN  IF swapWith < 1 \/ swapWith > Len(sorted)
                            THEN Result(data, FALSE, RespOk, ids)
                            ELSE Result(SetMaterial(data, msg.materialId, next),
                                        TRUE, RespOk, ids)

\* the entry addBookmark stores (background.js:520-526)
BookmarkEntry(msg, id, now) ==
    [id |-> id, text |-> trim(msg.text), url |-> normalizeUrl(msg.url),
     timestamp |-> now]
    @@ (IF msg.bookmarkType # "" THEN [type |-> msg.bookmarkType] ELSE NoFields)

addBookmark(msg, data, now, ids) ==
    LET migrated == migrateBookmarkIds(data, ids)
        id == ids + LegacyCount(data) + 1
    IN
    IF msg.materialId \notin DOMAIN data.materials
       THEN Result(data, FALSE, Err("material_not_found"), ids + LegacyCount(data))
       ELSE LET material == migrated.materials[msg.materialId]
                next == [material EXCEPT !.bookmarks =
                            <<BookmarkEntry(msg, id, now)>> \o @]
            IN  Result(SetMaterial(migrated, msg.materialId, next), TRUE, RespOk, id)

\* (a filter that lets no bookmark through)
RemovesEvery(msg, b) == TRUE

\* the test of deleteBookmark's filter: by id, or, without one, by url,
\* timestamp and text as far as the message gives them
ShouldRemove(msg, b) ==
    IF msg.bookmarkId # 0
       THEN b.id = msg.bookmarkId
       ELSE /\ normalizeUrl(msg.url) # NoUrl => normalizeUrl(b.url) = normalizeUrl(msg.url)
            /\ msg.timestamp # 0 => b.timestamp = msg.timestamp
            /\ trim(msg.text) # << >> => trim(b.text) = trim(msg.text)

\* deleteBookmark after its migration (background.js:550-582)
deleteBookmark(msg, data, now, ids) ==
    IF msg.materialId \notin DOMAIN data.materials
       THEN Result(data, FALSE, Err("material_not_found"), ids)
       ELSE LET material == data.materials[msg.materialId]
                nextBookmarks ==
                    SelectSeq(material.bookmarks, LAMBDA b : ~ShouldRemove(msg, b))
                next == [material EXCEPT !.bookmarks = nextBookmarks]
            IN  Result(SetMaterial(data, msg.materialId, next), TRUE,
                       [ok |-> TRUE,
                        removedCount |-> Len(material.bookmarks) - Len(nextBookmarks)],
                       ids)

\* data.collections[name] when it is an array
CollectionOf(data, name) ==
    IF name \in DOMAIN data.collections THEN data.collections[name] ELSE << >>

addMaterialToCollection(msg, data, now, ids) ==
    LET name == trim(msg.collectionName)
        existing == CollectionOf(data, name)
        next == IF \E i \in 1..Len(existing) : existing[i] = msg.materialId
                   THEN existing
                   ELSE <<msg.materialId>> \o existing
    IN  IF msg.materialId \notin DOMAIN data.materials
           THEN Result(data, FALSE, Err("material_not_found"), ids)
           ELSE Result([data EXCEPT !.collections = (name :> next) @@ @],
                       TRUE, RespOk, ids)

removeMaterialFromCollection(msg, data, now, ids) ==
    LET name == trim(msg.collectionName)
        next == SelectSeq(CollectionOf(data, name), LAMBDA id : id # msg.materialId)
    IN  Result([data EXCEPT !.collections = (name :> next) @@ @], TRUE, RespOk, ids)

\* what a handler answers before it reads the store: "" to go on
Refusal(msg) ==
    LET noUrl == Has(msg, "url") /\ normalizeUrl(msg.url) = NoUrl
        noMaterial == Has(msg, "materialId") /\ msg.materialId = 0
    IN  CASE msg.type \in {"pageProgress", "setIgnoreScrollProgress", "setPageFinished"} ->
               IF noUrl THEN "invalid_url" ELSE ""
          [] msg.type = "setPageStatus" ->
               IF noUrl THEN "invalid_url"
               ELSE IF msg.status \notin {"to_read", "reading", "finished"}
                       THEN "invalid_status" ELSE ""
          [] msg.type = "createMaterial" ->
               IF normalizeUrl(msg.indexUrl) = NoUrl THEN "invalid_index_url"
               ELSE IF msg.kind # "" /\ msg.kind \notin {"multi", "single"}
                       THEN "invalid_kind" ELSE ""
          [] msg.type \in {"deleteMaterial", "deleteBookmark"} ->
               IF noMaterial THEN "invalid_args" ELSE ""
          [] msg.type \in {"addChapter", "deleteChapter", "renameChapter"} ->
               IF noMaterial \/ noUrl THEN "invalid_args" ELSE ""
          [] msg.type = "moveChapter" ->
               IF noMaterial \/ noUrl THEN "invalid_args"
               ELSE IF msg.direction \notin {"up", "down"}
                       THEN "invalid_direction" ELSE ""
          [] msg.type = "addBookmark" ->
               IF noMaterial \/ noUrl \/ trim(msg.text) = << >> THEN "invalid_args"
               ELSE IF msg.bookmarkType # "" /\ msg.bookmarkType \notin {"highlight", "quote"}
                       THEN "invalid_bookmark_type" ELSE ""
          [] msg.type \in {"addMaterialToCollection", "removeMaterialFromCollection"} ->
               IF noMaterial \/ trim(msg.collectionName) = << >>
                  THEN "invalid_args" ELSE ""
          [] msg.type \in {"getData", "resetAllData"} -> ""
          [] OTHER -> "unknown_message"

\* the handler of a message that was not refused
Handle(msg, data, now, ids) ==
    CASE msg.type = "pageProgress" -> pageProgress(msg, data, now, ids)
      [] msg.type = "getData" -> getData(msg, data, now, ids)
      [] msg.type = "setPageStatus" -> setPageStatus(msg, data, now, ids)
      [] msg.type = "setIgnoreScrollProgress" -> setIgnoreScrollProgress(msg, data, now, ids)
      [] msg.type = "setPageFinished" -> setPageFinished(msg, data, now, ids)
      [] msg.type = "createMaterial" -> createMaterial(msg, data, now, ids)
      [] msg.type = "deleteMaterial" -> deleteMaterial(msg, data, now, ids)
      [] msg.type = "addChapter" -> addChapter(msg, data, now, ids)
      [] msg.type = "deleteChapter" -> deleteChapter(msg, data, now, ids)
      [] msg.type = "renameChapter" -> renameChapter(msg, data, now, ids)
      [] msg.type = "moveChapter" -> moveChapter(msg, data, now, ids)
      [] msg.type = "addBookmark" -> addBookmark(msg, data, now, ids)
      [] msg.type = "deleteBookmark" -> deleteBookmark(msg, data, now, ids)
      [] msg.type = "addMaterialToCollection" -> addMaterialToCollection(msg, data, now, ids)
      [] msg.type = "removeMaterialFromCollection" ->
           removeMaterialFromCollection(msg, data, now, ids)

\* the pages of the store messages, a material that is stored and one that
\* is not, texts and contexts
U1 == Url("u1", "")
U1h == Url("u1", "h")
U2 == Url("u2", "")
M1 == 1
Unstored == 9

Messages ==
    {[type |-> "pageProgress", url |-> u, progress |-> IF u = U2 THEN 250 ELSE 50,
      title |-> <<"t">>] :
        u \in {U1h, U2, NoUrl}}
    \cup {[type |-> "getData"], [type |-> "resetAllData"], [type |-> "sync"]}
    \cup {[type |-> "setPageStatus", url |-> U1, status |-> "reading"]}
    \cup {[type |-> "setIgnoreScrollProgress", url |-> U1, ignoreScrollProgress |-> b] :
            b \in BOOLEAN}
    \cup {[type |-> "setPageFinished", url |-> U1, finished |-> b] : b \in BOOLEAN}
    \cup {[type |-> "createMaterial", indexUrl |-> U2, title |-> <<" ", "t">>, kind |-> "single"],
          [type |-> "createMaterial", indexUrl |-> U1h, title |-> << >>, kind |-> ""]}
    \cup {[type |-> "deleteMaterial", materialId |-> M1]}
    \cup {[type |-> "addChapter", materialId |-> M1, url |-> u] : u \in {U1h, U2}}
    \cup {[type |-> "deleteChapter", materialId |-> M1, url |-> u] : u \in {U1, U2}}
    \cup {[type |-> "renameChapter", materialId |-> M1, url |-> U1, title |-> <<"n", " ">>],
          [type |-> "moveChapter", materialId |-> M1, url |-> U1, direction |-> "down"]}
    \cup {[type |-> "addBookmark", materialId |-> M1, url |-> U1h, text |-> <<" ", "a">>,
           contextBefore |-> <<"b">>, contextAfter |-> <<"c">>, bookmarkType |-> "quote"],
          [type |-> "addBookmark", materialId |-> M1, url |-> U2, text |-> <<"a">>,
           contextBefore |-> << >>, contextAfter |-> << >>, bookmarkType |-> ""]}
    \cup {[type |-> "deleteBookmark", materialId |-> M1, bookmarkId |-> 2, url |-> NoUrl,
           timestamp |-> 0, text |-> << >>],
          [type |-> "deleteBookmark", materialId |-> M1, bookmarkId |-> Unstored, url |-> NoUrl,
           timestamp |-> 0, text |-> << >>],
          [type |-> "deleteBookmark", materialId |-> M1, bookmarkId |-> 0, url |-> U1h,
           timestamp |-> 1, text |-> <<"a", " ">>],
          [type |-> "deleteBookmark", materialId |-> M1, bookmarkId |-> 0, url |-> NoUrl,
           timestamp |-> 0, text |-> <<" ">>]}
    \cup {[type |-> t, materialId |-> M1, collectionName |-> <<"c">>] :
            t \in {"addMaterialToCollection", "removeMaterialFromCollection"}}

\* what storage holds when the service worker starts: nothing; a material
\* with two chapters and a quote on each; the same with a quote saved before
\* quotes had ids
Quote2 == [id |-> 2, text |-> <<"a">>, url |-> U1, timestamp |-> 1]
Quote3 == [id |-> 3, text |-> <<"a">>, url |-> U2, timestamp |-> 1, type |-> "quote"]
OldQuote == [text |-> <<"a">>, url |-> U1, timestamp |-> 1]
Material1(bookmarks) ==
    [title |-> <<"m">>, indexUrl |-> U1, kind |-> "multi",
     chapters |-> <<[url |-> U1, order |-> 1, progress |-> 0],
                    [url |-> U2, order |-> 2, progress |-> 0]>>,
     bookmarks |-> bookmarks]
\* the first chapter read to its end and marked finished
FinishedPage ==
    [status |-> "finished", progress |-> 100, ignoreScrollProgress |-> TRUE,
     title |-> <<"t">>, updatedAt |-> 1]
FinishedStore ==
    SetPage(SetMaterial(EmptyStore, M1,
                        [Material1(<<Quote2, Quote3>>) EXCEPT !.chapters[1].progress = 100]),
            U1, FinishedPage)
Stores ==
    {EmptyStore,
     SetMaterial(EmptyStore, M1, Material1(<<Quote2, Quote3>>)),
     SetMaterial(EmptyStore, M1, Material1(<<Quote3, OldQuote>>)),
     FinishedStore}

\* the bookmarks with an id in a store, each with its material
QuotesOf(store) ==
    {[material |-> m, bookmark |-> store.materials[m].bookmarks[i]] :
        <<m, i>> \in {<<m, i>> \in UNION {{m} \X (1..Len(store.materials[m].bookmarks)) :
                                             m \in DOMAIN store.materials} :
                         ~IsLegacy(store.materials[m].bookmarks[i])}}

\* the ids of the stored bookmarks that a message asks to delete
Aimed(msg, store) ==
    {q.bookmark.id : q \in
        {q \in QuotesOf(store) :
            CASE msg.type = "resetAllData" -> TRUE
              [] msg.type = "deleteMaterial" -> q.material = msg.materialId
              [] msg.type = "deleteChapter" ->
                   /\ q.material = msg.materialId
                   /\ normalizeUrl(q.bookmark.url) = normalizeUrl(msg.url)
              [] msg.type = "deleteBookmark" ->
                   q.material = msg.materialId /\ ShouldRemove(msg, q.bookmark)
              [] OTHER -> FALSE}}

InitStore ==
    /\ PageIdle
    /\ ProgIdle
    /\ wait = NoWait
    /\ storage \in Stores
    /\ inflight = {}
    /\ clock = 1
    /\ issued = 3
    /\ received = 0
    /\ ops = 0
    /\ saved = QuotesOf(storage)
    /\ removed = {}
    /\ pendingChapterPrompts = << >>
    /\ notified = {}

StoreFrame == UNCHANGED <<progVars, pageVars, wait, promptVars>>

\* a message that is answered without a look at the store
Refuse(msg) ==
    /\ received < MaxMessages
    /\ Refusal(msg) # ""
    /\ received' = received + 1
    /\ obs' = [op |-> "store", msg |-> msg, resp |-> Err(Refusal(msg)), id |-> issued]
    /\ UNCHANGED <<storage, inflight, clock, issued, ops, saved, removed>>
    /\ StoreFrame

\* resetAllData: chrome.storage.local.clear()
ResetAllData(msg) ==
    /\ received < MaxMessages
    /\ msg.type = "resetAllData"
    /\ received' = received + 1
    /\ storage' = EmptyStore
    /\ removed' = removed \cup Aimed(msg, storage)
    /\ obs' = [op |-> "store", msg |-> msg, resp |-> RespOk, id |-> issued]
    /\ ops' = ops + 1
    /\ UNCHANGED <<inflight, clock, issued, saved>>
    /\ StoreFrame

\* a handler up to its await of getAllData: chrome.storage serves the calls
\* in their order, so the read sees what was written before it was called
Start(msg) ==
    /\ received < MaxMessages
    /\ Refusal(msg) = ""
    /\ msg.type # "resetAllData"
    /\ received' = received + 1
    /\ inflight' = inflight \cup
                      {[n |-> received + 1, msg |-> msg, data |-> storage, pc |-> "read",
                        op |-> ops + 1]}
    /\ ops' = ops + 1
    /\ UNCHANGED <<storage, clock, issued, saved, removed, obs>>
    /\ StoreFrame

\* deleteBookmark found bookmarks without an id and awaits setAllData
\* (background.js:547-549)
Migrates(h) ==
    h.msg.type = "deleteBookmark" /\ h.pc = "read" /\ LegacyCount(h.data) > 0

\* the handler whose call of chrome.storage.local is answered next
Oldest(h) == \A g \in inflight : g.op >= h.op

MigrateWrite(n) ==
    \E h \in inflight :
        /\ h.n = n
        /\ Oldest(h)
        /\ Migrates(h)
        /\ LET migrated == migrateBookmarkIds(h.data, issued)
           IN  /\ storage' = migrated
               /\ inflight' = (inflight \ {h})
                                 \cup {[h EXCEPT !.data = migrated, !.pc = "migrated",
                                                 !.op = ops + 1]}
               /\ saved' = saved \cup QuotesOf(migrated)
        /\ issued' = issued + LegacyCount(h.data)
        /\ ops' = ops + 1
        /\ UNCHANGED <<clock, received, removed, obs>>
        /\ StoreFrame

\* a handler from the return of getAllData to its response
Finish(n) ==
    \E h \in inflight :
        /\ h.n = n
        /\ Oldest(h)
        /\ ~Migrates(h)
        /\ LET r == Handle(h.msg, h.data, clock, issued)
           IN  /\ storage' = IF r.write THEN r.data ELSE storage
               /\ saved' = saved \cup (IF r.write THEN QuotesOf(r.data) ELSE {})
               /\ removed' = removed \cup (IF r.write THEN Aimed(h.msg, storage) ELSE {})
               /\ issued' = r.issued
               /\ obs' = [op |-> "store", msg |-> h.msg, resp |-> r.resp, id |-> r.issued]
        /\ inflight' = inflight \ {h}
        /\ ops' = ops + (IF Handle(h.msg, h.data, clock, issued).write THEN 1 ELSE 0)
        /\ UNCHANGED <<clock, received>>
        /\ StoreFrame

\* a second passes
Tick ==
    /\ clock < MaxClock
    /\ clock' = clock + 1
    /\ UNCHANGED <<storage, inflight, issued, received, ops, saved, removed, obs>>
    /\ StoreFrame

NextStore ==
    \/ \E msg \in Messages : Refuse(msg)
    \/ \E msg \in Messages : ResetAllData(msg)
    \/ \E msg \in Messages : Start(msg)
    \/ \E n \in 1..MaxMessages : MigrateWrite(n)
    \/ \E n \in 1..MaxMessages : Finish(n)
    \/ Tick

SpecStore == InitStore /\ [][NextStore]_vars

\* C17: a bookmark that was stored with an id stays in its material with the
\* same id, text, url, timestamp and other fields, unless a deleteBookmark,
\* a deleteChapter of its URL, a deleteMaterial or a resetAllData asked for
\* its removal.
C17_StoredQuoteImmutable ==
    \A q \in saved :
        \/ q.bookmark.id \in removed
        \/ /\ q.material \in DOMAIN storage.materials
           /\ \E i \in 1..Len(storage.materials[q.material].bookmarks) :
                 storage.materials[q.material].bookmarks[i] = q.bookmark

\* C18: after an addBookmark answered ok, the material's first bookmark has
\* the id just made, the trimmed text, the normalized url, the timestamp, and
\* the contextBefore and contextAfter of the message.
C18_ContextPersisted ==
    (/\ obs.op = "store" /\ obs.msg.type = "addBookmark" /\ obs.resp.ok
     /\ obs.msg.materialId \in DOMAIN storage.materials
     /\ storage.materials[obs.msg.materialId].bookmarks # << >>
     /\ ~IsLegacy(storage.materials[obs.msg.materialId].bookmarks[1])
     /\ storage.materials[obs.msg.materialId].bookmarks[1].id = obs.id)
    => LET b == storage.materials[obs.msg.materialId].bookmarks[1]
       IN  /\ b.text = trim(obs.msg.text)
           /\ b.url = normalizeUrl(obs.msg.url)
           /\ b.timestamp \in 1..clock
           /\ Has(b, "contextBefore") /\ b.contextBefore = obs.msg.contextBefore
           /\ Has(b, "contextAfter") /\ b.contextAfter = obs.msg.contextAfter

-----------------------------------------------------------------------------
(* What the claims about the page records speak of. *)

\* the handlers that end with this step, each with the store it read
Finishing == inflight \ inflight'

UrlOf(msg) == IF Has(msg, "url") THEN normalizeUrl(msg.url) ELSE NoUrl

\* the field f of a record that may lack it
FieldOf(p, f) == IF Has(p, f) THEN {p[f]} ELSE {}

Flagged(p) == FieldOf(p, "ignoreScrollProgress") = {TRUE}

Clamped(x) == IF x < 0 THEN 0 ELSE IF x > 100 THEN 100 ELSE x

\* what a pageProgress handler writes for the page record old that it read
ProgressWritten(msg, old, new, now) ==
    /\ new.title = (IF msg.title # << >> THEN msg.title
                    ELSE IF Has(old, "title") THEN old.title ELSE << >>)
    /\ new.updatedAt = now
    /\ \A f \in DOMAIN old \ {"title", "updatedAt", "progress"} :
          Has(new, f) /\ new[f] = old[f]
    /\ IF Flagged(old)
          THEN /\ FieldOf(new, "progress") = FieldOf(old, "progress")
               /\ DOMAIN new = DOMAIN old \cup {"title", "updatedAt"}
          ELSE /\ new.progress = Clamped(msg.progress)
               /\ new.progress \in 0..100
               /\ DOMAIN new = DOMAIN old \cup {"title", "updatedAt", "progress"}

PageProgressStep ==
    \A h \in Finishing :
        h.msg.type = "pageProgress" =>
            /\ UrlOf(h.msg) \in DOMAIN storage'.pages
            /\ ProgressWritten(h.msg, PageOf(h.data, UrlOf(h.msg)),
                               PageOf(storage', UrlOf(h.msg)), clock)

\* C26: a pageProgress message for a URL whose page record, as the handler
\* read it, has ignoreScrollProgress === true leaves the progress of the
\* record as it was and writes only title and updatedAt; for a record
\* without the flag the progress written is clampProgress(message.progress),
\* an integer in 0..100.
C26_IgnoredProgressKept == [][PageProgressStep]_vars

\* a pageProgress of 50 for the page marked finished has been answered a
\* second later: progress 100 and the flag as before, updatedAt the new time
C26_Witness ==
    /\ obs.op = "store" /\ obs.msg.type = "pageProgress" /\ obs.msg.url = U1h
    /\ obs.msg.progress = 50
    /\ U1 \in DOMAIN storage.pages
    /\ Flagged(storage.pages[U1])
    /\ FieldOf(storage.pages[U1], "progress") = {100}
    /\ storage.pages[U1].updatedAt = 2

\* a page marked finished
Finished(p) == Flagged(p) /\ FieldOf(p, "progress") = {100}

\* what the page record new, written over the record old, has of the mark
MarkStep(msg, old, new) ==
    /\ (msg.type = "setPageFinished" /\ msg.finished) =>
          /\ FieldOf(new, "status") = {"finished"}
          /\ Finished(new)
    /\ (msg.type = "pageProgress" /\ Finished(old)) =>
          /\ Finished(new)
          /\ FieldOf(new, "status") = FieldOf(old, "status")
    /\ (msg.type = "setPageFinished" /\ ~msg.finished) =>
          /\ ~Has(new, "status")
          /\ FieldOf(new, "ignoreScrollProgress") = {FALSE}
          /\ FieldOf(new, "progress") = FieldOf(old, "progress")
    /\ (msg.type = "pageProgress" /\ FieldOf(old, "ignoreScrollProgress") = {FALSE}) =>
          FieldOf(new, "progress") = {Clamped(msg.progress)}

\* the mark of a page is left alone by every handler but setPageFinished and
\* setIgnoreScrollProgress for its URL
MarkKept(h, written) ==
    \A u \in DOMAIN h.data.pages :
        ( /\ Finished(h.data.pages[u])
          /\ ~(h.msg.type \in {"setPageFinished", "setIgnoreScrollProgress"}
               /\ UrlOf(h.msg) = u) )
        => (u \in DOMAIN written.pages /\ Finished(written.pages[u]))

FinishedStep ==
    \A h \in Finishing :
        ops' = ops + 1 =>
            /\ Has(h.msg, "url") /\ h.msg.type \in {"setPageFinished", "pageProgress"} =>
                  MarkStep(h.msg, PageOf(h.data, UrlOf(h.msg)),
                           PageOf(storage', UrlOf(h.msg)))
            /\ MarkKept(h, storage')

C28_ChapterProgressInSync ==
    \A m \in DOMAIN storage.materials :
        \A i \in 1..Len(storage.materials[m].chapters) :
            LET c == storage.materials[m].chapters[i]
            IN  (c.url \in DOMAIN storage.pages /\ Has(storage.pages[c.url], "progress"))
                => c.progress = storage.pages[c.url].progress

-----------------------------------------------------------------------------
(* SpecPrompt: the add-chapter notifications of the service worker
   (background.js:146-237).  The handlers run up to an await and go on when
   it returns; the order in which the awaits of different handlers return is
   left open. *)

U1a == Url("u1a", "")
U1b == Url("u1b", "")
U1bh == Url("u1b", "h")

\* the URLs as strings, for String.prototype.startsWith
Spelled(url) ==
    CASE url.page = "u1" -> <<"u", "1">>
      [] url.page = "u1a" -> <<"u", "1", "a">>
      [] url.page = "u1b" -> <<"u", "1", "b">>
      [] url.page = "u2" -> <<"u", "2">>
      [] OTHER -> << >>

\* new URL(input) throws
Invalid(url) == url.page = ""

\* getMaterialUrlScopePrefix: the index URL without its hash, NoUrl for null
getMaterialUrlScopePrefix(indexUrl) ==
    IF Invalid(indexUrl) THEN NoUrl ELSE normalizeUrl(indexUrl)

isUrlUnderPrefix(url, prefix) ==
    /\ ~Invalid(url) /\ ~Invalid(prefix)
    /\ startsWith(Spelled(url), Spelled(prefix))

\* findMatchingMaterial: the material with the longest prefix of the url, the
\* first of them in the order of Object.entries; 0 for null
findMatchingMaterial(materials, url) ==
    LET prefix(id) == getMaterialUrlScopePrefix(materials[id].indexUrl)
        candidates == {id \in DOMAIN materials : isUrlUnderPrefix(url, prefix(id))}
    IN  IF candidates = {} THEN 0
        ELSE CHOOSE id \in candidates :
                \A other \in candidates :
                    \/ Len(Spelled(prefix(id))) > Len(Spelled(prefix(other)))
                    \/ /\ Len(Spelled(prefix(id))) = Len(Spelled(prefix(other)))
                       /\ id <= other

\* Map.prototype.delete
MapDelete(map, key) == [k \in DOMAIN map \ {key} |-> map[k]]

\* (a test that finds no prompt pending)
NoneAlready(pending, materialId, url) == FALSE

\* [...pendingChapterPrompts.values()].some(...) (background.js:170-172)
AlreadyPending(pending, materialId, url) ==
    \E id \in DOMAIN pending :
        pending[id].materialId = materialId /\ pending[id].url = url

\* maybePromptAddChapter after its await: whether it creates a notification
\* (background.js:156-173)
Prompts(data, url, pending) ==
    LET materialId == findMatchingMaterial(data.materials, url)
    IN  /\ materialId # 0
        /\ LET material == data.materials[materialId]
               indexUrl == getMaterialUrlScopePrefix(material.indexUrl)
           IN  /\ ~(~Invalid(indexUrl) /\ url = indexUrl)
               /\ ~chapterExists(material, url)
               /\ ~AlreadyPending(pending, materialId, url)

Book(indexUrl, chapters) ==
    [title |-> <<"m">>, indexUrl |-> indexUrl, kind |-> "multi",
     chapters |-> chapters, bookmarks |-> << >>]

\* what storage holds: no material; a material with one chapter; a material
\* and another whose index is a page under the first
PromptStores ==
    {EmptyStore,
     SetMaterial(EmptyStore, 1, Book(U1, <<[url |-> U1a, order |-> 1, progress |-> 0]>>)),
     SetMaterial(SetMaterial(EmptyStore, 1, Book(U1, << >>)), 2, Book(U1a, << >>))}

TabUrlSet == {U1, U1a, U1b, U1bh, U2, NoUrl}

\* how many invocations of maybePromptAddChapter and button clicks a
\* behavior has
MaxCalls == 3

InitPrompt ==
    /\ PageIdle
    /\ ProgIdle
    /\ wait = NoWait
    /\ storage \in PromptStores
    /\ inflight = {}
    /\ clock = 1
    /\ issued = 2
    /\ received = 0
    /\ ops = 0
    /\ saved = {}
    /\ removed = {}
    /\ pendingChapterPrompts = << >>
    /\ notified = {}

PromptFrame == UNCHANGED <<progVars, pageVars, wait, clock, saved, removed>>

\* maybePromptAddChapter(tab) up to its await of getAllData, as the k-th
\* call of its event (background.js:151-155)
Invocation(url, k) ==
    [n |-> received + k,
     msg |-> [type |-> "maybePromptAddChapter", url |-> normalizeUrl(url)],
     data |-> storage, pc |-> "read", op |-> ops + k]

\* the invocations an event starts: one for each url that is valid
Invoke(urls) ==
    LET valid == SelectSeq(urls, LAMBDA u : ~Invalid(u))
    IN  /\ received + Len(valid) <= MaxCalls
        /\ received' = received + Len(valid)
        /\ ops' = ops + Len(valid)
        /\ inflight' = inflight \cup {Invocation(valid[k], k) : k \in 1..Len(valid)}
        /\ obs' = [op |-> "event", started |-> Len(valid)]
        /\ UNCHANGED <<storage, issued, promptVars>>
        /\ PromptFrame

\* chrome.tabs.onUpdated (background.js:225-232): changeInfo has a status
\* and, when the tab went to another URL, that URL
TabUpdated(status, urlChanged, active, url) ==
    /\ urlChanged => ~Invalid(url)
    /\ Invoke((IF status = "complete" /\ active THEN <<url>> ELSE << >>)
              \o (IF urlChanged /\ active THEN <<url>> ELSE << >>))

\* chrome.tabs.onActivated (background.js:234-237), from the return of
\* chrome.tabs.get
TabActivated(url) ==
    /\ url \in TabUrlSet
    /\ Invoke(<<url>>)

\* maybePromptAddChapter from the return of getAllData (background.js:156-186)
PromptResume(n) ==
    \E h \in inflight :
        /\ h.n = n
        /\ h.msg.type = "maybePromptAddChapter"
        /\ LET url == h.msg.url
               materialId == findMatchingMaterial(h.data.materials, url)
               notificationId == issued + 1
           IN  IF Prompts(h.data, url, pendingChapterPrompts)
                  THEN /\ issued' = notificationId
                       /\ pendingChapterPrompts' =
                              (notificationId :> [materialId |-> materialId, url |-> url])
                              @@ pendingChapterPrompts
                       /\ notified' = notified \cup
                              {[id |-> notificationId, materialId |-> materialId,
                                url |-> url]}
                       /\ obs' = [op |-> "prompt", url |-> url, data |-> h.data,
                                  materialId |-> materialId, created |-> notificationId]
                  ELSE /\ UNCHANGED <<issued, promptVars>>
                       /\ obs' = [op |-> "prompt", url |-> url, data |-> h.data,
                                  materialId |-> materialId, created |-> 0]
        /\ inflight' = inflight \ {h}
        /\ UNCHANGED <<storage, received, ops>>
        /\ PromptFrame

\* chrome.notifications.onButtonClicked for a notification on display, up to
\* its await of getAllData, or to its end for the second button
\* (background.js:189-194, 214-217)
ButtonClicked(notificationId, buttonIndex) ==
    /\ notificationId \in DOMAIN pendingChapterPrompts
    /\ IF buttonIndex = 0
          THEN /\ received < MaxCalls
               /\ received' = received + 1
               /\ ops' = ops + 1
               /\ inflight' = inflight \cup
                     {[n |-> received + 1,
                       msg |-> [type |-> "onButtonClicked",
                                notificationId |-> notificationId,
                                pending |-> pendingChapterPrompts[notificationId]],
                       data |-> storage, pc |-> "read", op |-> ops + 1]}
               /\ UNCHANGED promptVars
          ELSE /\ pendingChapterPrompts' = MapDelete(pendingChapterPrompts, notificationId)
               /\ UNCHANGED <<received, ops, inflight, notified>>
    /\ obs' = [op |-> "click", id |-> notificationId, button |-> buttonIndex]
    /\ UNCHANGED <<storage, issued>>
    /\ PromptFrame

\* the chapter the first button adds (background.js:199-208)
PromptedChapter(data, material, url) ==
    [url |-> url, order |-> nextChapterOrder(material),
     progress |-> clampProgress(IF Has(PageOf(data, url), "progress")
                                   THEN PageOf(data, url).progress ELSE 0)]
    @@ (IF Has(PageOf(data, url), "title") /\ PageOf(data, url).title # << >>
           THEN [title |-> PageOf(data, url).title]
           ELSE NoFields)

\* the click handler adds a chapter (background.js:196-197)
Adds(h) ==
    /\ h.msg.pending.materialId \in DOMAIN h.data.materials
    /\ ~chapterExists(h.data.materials[h.msg.pending.materialId], h.msg.pending.url)

\* the click handler from the return of getAllData to its await of
\* setAllData (background.js:195-211)
ClickWrite(n) ==
    \E h \in inflight :
        /\ h.n = n
        /\ h.msg.type = "onButtonClicked" /\ h.pc = "read"
        /\ Adds(h)
        /\ LET material == h.data.materials[h.msg.pending.materialId]
               nextMaterial ==
                   [material EXCEPT !.chapters =
                       Append(@, PromptedChapter(h.data, material, h.msg.pending.url))]
           IN  storage' = SetMaterial(h.data, h.msg.pending.materialId, nextMaterial)
        /\ inflight' = (inflight \ {h}) \cup {[h EXCEPT !.pc = "wrote", !.op = ops + 1]}
        /\ ops' = ops + 1
        /\ obs' = [op |-> "added", id |-> h.msg.notificationId]
        /\ UNCHANGED <<issued, received, promptVars>>
        /\ PromptFrame

\* the finally block of the click handler (background.js:214-217)
ClickDone(n) ==
    \E h \in inflight :
        /\ h.n = n
        /\ h.msg.type = "onButtonClicked"
        /\ h.pc = "wrote" \/ ~Adds(h)
        /\ pendingChapterPrompts' =
               MapDelete(pendingChapterPrompts, h.msg.notificationId)
        /\ inflight' = inflight \ {h}
        /\ obs' = [op |-> "cleared", id |-> h.msg.notificationId]
        /\ UNCHANGED <<storage, issued, received, ops, notified>>
        /\ PromptFrame

\* chrome.notifications.onClosed for a notification on display
\* (background.js:220-222)
Closed(notificationId) ==
    /\ notificationId \in DOMAIN pendingChapterPrompts
    /\ pendingChapterPrompts' = MapDelete(pendingChapterPrompts, notificationId)
    /\ obs' = [op |-> "closed", id |-> notificationId]
    /\ UNCHANGED <<storage, inflight, issued, received, ops, notified>>
    /\ PromptFrame

NotificationIds == 3..(2 + MaxCalls)

NextPrompt ==
    \/ \E status \in {"loading", "complete"}, urlChanged \in BOOLEAN,
          active \in BOOLEAN, url \in TabUrlSet :
              TabUpdated(status, urlChanged, active, url)
    \/ \E url \in TabUrlSet : TabActivated(url)
    \/ \E n \in 1..MaxCalls : PromptResume(n)
    \/ \E id \in NotificationIds, buttonIndex \in {0, 1} : ButtonClicked(id, buttonIndex)
    \/ \E n \in 1..MaxCalls : ClickWrite(n)
    \/ \E n \in 1..MaxCalls : ClickDone(n)
    \/ \E id \in NotificationIds : Closed(id)

SpecPrompt == InitPrompt /\ [][NextPrompt]_vars

\* C29 (as claimed): over any sequence of tab events, button clicks and
\* closes, at most one notification is created for a material and a URL.
C29_PromptedAtMostOnce ==
    \A x, y \in notified :
        (x.materialId = y.materialId /\ x.url = y.url) => x = y

\* C30: pendingChapterPrompts never holds two entries with the same material
\* and URL, however the invocations of maybePromptAddChapter interleave, and
\* no notification is created for a URL that is the index URL of the
\* material or one of its chapters in the data the invocation read.
C30_NoDuplicatePending ==
    /\ \A a, b \in DOMAIN pendingChapterPrompts :
          ( /\ pendingChapterPrompts[a].materialId = pendingChapterPrompts[b].materialId
            /\ pendingChapterPrompts[a].url = pendingChapterPrompts[b].url )
          => a = b
    /\ (obs.op = "prompt" /\ obs.created # 0) =>
          LET m == obs.data.materials[obs.materialId]
          IN  /\ obs.url # [m.indexUrl EXCEPT !.hash = ""]
              /\ \A i \in 1..Len(m.chapters) : m.chapters[i].url # obs.url

\* of three invocations for one URL under way together, one has created the
\* notification, one has found it pending and created none, one still waits
C30_Witness ==
    /\ obs.op = "prompt" /\ obs.created = 0 /\ obs.materialId # 0
    /\ \E id \in DOMAIN pendingChapterPrompts :
          /\ pendingChapterPrompts[id].url = obs.url
          /\ pendingChapterPrompts[id].materialId = obs.materialId
    /\ \E h \in inflight :
          h.msg.type = "maybePromptAddChapter" /\ h.msg.url = obs.url

\* ---------------------------------------------------------------------
\* What the claims about deleting chapters and quotes speak of: a handler
\* is judged by the data it read (h.data) and what it wrote and answered.

\* the chapters of a list other than those of a URL, in the list's order
ChaptersBut(chapters, url) == SelectSeq(chapters, LAMBDA c : c.url # url)

\* new is old but for the fields in fields
SameBut(old, new, fields) ==
    /\ DOMAIN new = DOMAIN old
    /\ \A f \in DOMAIN old \ fields : new[f] = old[f]

\* the store written differs from the data read in material id alone
OnlyMaterial(data, store, id) ==
    /\ SameBut(data, store, {"materials"})
    /\ DOMAIN store.materials = DOMAIN data.materials
    /\ \A m \in DOMAIN data.materials \ {id} : store.materials[m] = data.materials[m]

DeleteChapterStep ==
    \A h \in Finishing :
        h.msg.type = "deleteChapter" =>
            LET url == UrlOf(h.msg)
                id == h.msg.materialId
            IN  IF id \notin DOMAIN h.data.materials
                   THEN storage' = storage /\ obs'.resp = Err("material_not_found")
                ELSE LET old == h.data.materials[id]
                         kept == ChaptersBut(old.chapters, url)
                     IN  IF Len(kept) = Len(old.chapters)
                            THEN /\ storage' = storage
                                 /\ obs'.resp = Err("chapter_not_found")
                            ELSE LET new == storage'.materials[id]
                                 IN  /\ OnlyMaterial(h.data, storage', id)
                                     /\ SameBut(old, new, {"chapters", "bookmarks"})
                                     /\ Len(new.chapters) = Len(kept)
                                     /\ \A i \in 1..Len(kept) :
                                           /\ new.chapters[i].order = i
                                           /\ SameBut(kept[i], new.chapters[i], {"order"})
                                     /\ new.bookmarks =
                                           SelectSeq(old.bookmarks,
                                                     LAMBDA b : normalizeUrl(b.url) # url)
                                     /\ obs'.resp =
                                           [ok |-> TRUE,
                                            removedQuotesCount |->
                                                Cardinality({i \in 1..Len(old.bookmarks) :
                                                    normalizeUrl(old.bookmarks[i].url) = url})]

\* C31: deleteChapter(materialId, url) on a chapter of the material removes
\* that chapter, renumbers the chapters left 1..n in the order they had,
\* removes exactly the material's bookmarks whose normalized URL is the
\* chapter's and answers their number as removedQuotesCount; every other
\* bookmark, the other materials, the pages and the collections stay as the
\* handler read them. For a URL that is no chapter it answers
\* chapter_not_found and writes nothing.
C31_DeleteChapterFrame == [][DeleteChapterStep]_vars

\* the first chapter has been deleted with its one quote: the second chapter
\* is now chapter 1 and its quote is the only one left
C31_Witness ==
    /\ obs.op = "store" /\ obs.msg.type = "deleteChapter"
    /\ obs.msg.url = U1
    /\ obs.resp = [ok |-> TRUE, removedQuotesCount |-> 1]
    /\ M1 \in DOMAIN storage.materials
    /\ Len(storage.materials[M1].chapters) = 1
    /\ storage.materials[M1].chapters[1].url = U2
    /\ storage.materials[M1].chapters[1].order = 1
    /\ storage.materials[M1].bookmarks = <<Quote3>>

\* the ids of the bookmarks of a store
IdsIn(data) == {q.bookmark.id : q \in QuotesOf(data)}

\* the bookmarks new are the bookmarks old, each as it was or, when it had
\* no id, with an id that no bookmark of the data read has
GivenIds(data, old, new) ==
    /\ Len(new) = Len(old)
    /\ \A i \in 1..Len(old) :
          IF IsLegacy(old[i])
             THEN /\ DOMAIN new[i] = DOMAIN old[i] \cup {"id"}
                  /\ \A f \in DOMAIN old[i] \ {"id"} : new[i][f] = old[i][f]
                  /\ new[i].id \notin IdsIn(data) \cup {0}
             ELSE new[i] = old[i]

\* the step that ends a deleteBookmark by id, against the data it holds
DeletedById(h) ==
    LET id == h.msg.materialId IN
    IF id \notin DOMAIN h.data.materials
       THEN storage' = storage /\ obs'.resp = Err("material_not_found")
       ELSE LET old == h.data.materials[id]
                new == storage'.materials[id]
                gone == {i \in 1..Len(old.bookmarks) :
                            old.bookmarks[i].id = h.msg.bookmarkId}
            IN  /\ OnlyMaterial(h.data, storage', id)
                /\ SameBut(old, new, {"bookmarks"})
                /\ new.bookmarks =
                      SelectSeq(old.bookmarks, LAMBDA b : b.id # h.msg.bookmarkId)
                /\ obs'.resp = [ok |-> TRUE, removedCount |-> Cardinality(gone)]
                /\ gone = {} => new.bookmarks = old.bookmarks

ById(h) == h.msg.type = "deleteBookmark" /\ h.msg.bookmarkId # 0

DeleteBookmarkStep ==
    \A h \in Finishing :
        ById(h) =>
            IF Migrates(h)
               THEN /\ SameBut(h.data, storage', {"materials"})
                    /\ DOMAIN storage'.materials = DOMAIN h.data.materials
                    /\ \A m \in DOMAIN h.data.materials :
                          /\ SameBut(h.data.materials[m], storage'.materials[m],
                                     {"bookmarks"})
                          /\ GivenIds(h.data, h.data.materials[m].bookmarks,
                                      storage'.materials[m].bookmarks)
                    /\ \A x, y \in QuotesOf(storage') :
                          x.bookmark.id = y.bookmark.id =>
                             \/ x = y
                             \/ \E z \in QuotesOf(h.data) : z.bookmark.id = x.bookmark.id
               ELSE DeletedById(h)

\* C32 as amended: deleteBookmark with a bookmarkId first gives every
\* bookmark of the store that has no id a fresh one and writes the store
\* when it gave any; it then removes exactly the bookmarks of the material
\* whose id is bookmarkId, keeps every other bookmark as it is and in the
\* same order, and answers removedCount = the number removed (0 for an
\* unknown id, the list then being the one after the ids were given).
C32_DeleteByIdAfterMigration == [][DeleteBookmarkStep]_vars

\* C32: deleteBookmark with a bookmarkId removes exactly the bookmarks of
\* the material whose id is bookmarkId and keeps every other bookmark
\* unchanged and in the same order; removedCount is the number removed (0
\* for an unknown id, the list then unchanged).
C32_DeleteByIdOnly ==
    [][\A h \in Finishing :
          ById(h) => IF Migrates(h) THEN storage' = h.data ELSE DeletedById(h)]_vars

\* a deleteBookmark for an id that no bookmark has was answered with
\* removedCount 0 on the store with a quote saved without an id: the quote
\* now has the id 4
C32_Witness ==
    /\ obs.op = "store" /\ obs.msg.type = "deleteBookmark"
    /\ obs.msg.bookmarkId = Unstored
    /\ obs.resp = [ok |-> TRUE, removedCount |-> 0]
    /\ M1 \in DOMAIN storage.materials
    /\ storage.materials[M1].bookmarks = <<Quote3, [id |-> 4] @@ OldQuote>>

\* a deleteBookmark that names a material and gives neither a bookmarkId nor
\* a url, timestamp or text that could be used
NoCriteria(msg) ==
    /\ msg.type = "deleteBookmark"
    /\ msg.bookmarkId = 0
    /\ normalizeUrl(msg.url) = NoUrl
    /\ msg.timestamp = 0
    /\ trim(msg.text) = << >>

\* C33: a deleteBookmark request with a materialId and no bookmarkId, no
\* usable url, no timestamp and no text removes no bookmark: its answer has
\* removedCount 0.
C33_NoCriteriaRemovesNothing ==
    (obs.op = "store" /\ NoCriteria(obs.msg) /\ obs.resp.ok) => obs.resp.removedCount = 0

\* ---------------------------------------------------------------------
\* The chapter list of a material under the chapter messages of the popup
\* and the first button of the notification, in any interleaving

ChapterMessages ==
    {[type |-> "addChapter", materialId |-> 1, url |-> u] : u \in {U1a, U1bh}}
    \cup {[type |-> "deleteChapter", materialId |-> 1, url |-> u] : u \in {U1a, U1b}}
    \cup {[type |-> "moveChapter", materialId |-> 1, url |-> U1a, direction |-> d] :
             d \in {"up", "down"}}
    \cup {[type |-> "renameChapter", materialId |-> 1, url |-> U1b, title |-> <<"n">>]}

\* a material as createMaterial stores it, and the material after two
\* addChapter
ChapterStores ==
    {SetMaterial(EmptyStore, 1, Book(U1, << >>)),
     SetMaterial(EmptyStore, 1,
                 Book(U1, <<[url |-> U1a, order |-> 1, progress |-> 0],
                            [url |-> U2, order |-> 2, progress |-> 0]>>))}

InitChap ==
    /\ PageIdle
    /\ ProgIdle
    /\ wait = NoWait
    /\ storage \in ChapterStores
    /\ inflight = {}
    /\ clock = 1
    /\ issued = 2
    /\ received = 0
    /\ ops = 0
    /\ saved = {}
    /\ removed = {}
    /\ pendingChapterPrompts = << >>
    /\ notified = {}

\* the onMessage listener with a chapter message, up to its await of
\* getAllData
Request(msg) ==
    /\ received < MaxCalls
    /\ Refusal(msg) = ""
    /\ received' = received + 1
    /\ inflight' = inflight \cup
                      {[n |-> received + 1, msg |-> msg, data |-> storage, pc |-> "read",
                        op |-> ops + 1]}
    /\ ops' = ops + 1
    /\ UNCHANGED <<storage, issued, obs, promptVars>>
    /\ PromptFrame

\* the listener from the return of getAllData to its response
Respond(n) ==
    /\ \E h \in inflight : h.n = n /\ h.msg \in ChapterMessages
    /\ Finish(n)

ChapterTabs == {U1a, U1b}

NextChap ==
    \/ \E msg \in ChapterMessages : Request(msg)
    \/ \E n \in 1..MaxCalls : Respond(n)
    \/ \E url \in ChapterTabs : TabActivated(url)
    \/ \E n \in 1..MaxCalls : PromptResume(n)
    \/ \E id \in NotificationIds, buttonIndex \in {0, 1} : ButtonClicked(id, buttonIndex)
    \/ \E n \in 1..MaxCalls : ClickWrite(n)
    \/ \E n \in 1..MaxCalls : ClickDone(n)

SpecChap == InitChap /\ [][NextChap]_vars

\* the chapters of every material have different URLs and the orders 1..n
ChaptersSound(store) ==
    \A m \in DOMAIN store.materials :
        LET cs == store.materials[m].chapters
        IN  /\ \A i, j \in 1..Len(cs) : cs[i].url = cs[j].url => i = j
            /\ {cs[i].order : i \in 1..Len(cs)} = 1..Len(cs)

\* addChapter for a URL that is a chapter in the data it read
AlreadyStep ==
    \A h \in Finishing :
        ( /\ h.msg.type = "addChapter"
          /\ h.msg.materialId \in DOMAIN h.data.materials
          /\ \E i \in 1..Len(h.data.materials[h.msg.materialId].chapters) :
                h.data.materials[h.msg.materialId].chapters[i].url = UrlOf(h.msg) )
        => /\ storage' = storage
           /\ obs'.resp = [ok |-> TRUE, already |-> TRUE]

\* C34: from a newly created material on, after any sequence and any
\* interleaving of addChapter, the first button of the notification,
\* deleteChapter, moveChapter and renameChapter, the chapters of the
\* material have pairwise different URLs and their orders are exactly 1..n;
\* addChapter for a URL that is already a chapter answers already: true and
\* changes nothing.
C34_ChaptersSound == [](ChaptersSound(storage)) /\ [][AlreadyStep]_vars

\* addChapter and the button of the notification were under way together
\* for the same page; the button has added the chapter as the third, and
\* addChapter, which read the store after that, has answered already: true
C34_Witness ==
    /\ obs.op = "store" /\ obs.msg.type = "addChapter"
    /\ obs.resp = [ok |-> TRUE, already |-> TRUE]
    /\ obs.msg.url = U1bh
    /\ Len(storage.materials[1].chapters) = 3
    /\ storage.materials[1].chapters[3].url = U1b
    /\ storage.materials[1].chapters[3].order = 3

\* ---------------------------------------------------------------------
\* Handlers that run together

\* the chapters of a store, each with its material
ChapterUrlsOf(store) ==
    {<<m, store.materials[m].chapters[i].url>> :
        <<m, i>> \in UNION {{m} \X (1..Len(store.materials[m].chapters)) :
                              m \in DOMAIN store.materials}}

\* a handler that answers ok: true leaves in the store what the handlers
\* answered before it have put there and its own message does not speak
\* of: pageProgress the bookmarks and the chapters, addBookmark and
\* addChapter the page records
KeepsTheOthers ==
    \A h \in Finishing :
        /\ (h.msg.type = "pageProgress" /\ obs'.resp.ok) =>
              /\ QuotesOf(storage) \subseteq QuotesOf(storage')
              /\ ChapterUrlsOf(storage) \subseteq ChapterUrlsOf(storage')
        /\ (h.msg.type \in {"addBookmark", "addChapter"} /\ obs'.resp.ok) =>
              \A u \in DOMAIN storage.pages :
                  u \in DOMAIN storage'.pages /\ storage'.pages[u] = storage.pages[u]

\* C35: no acknowledged update is lost: when two handlers of the store run
\* together (pageProgress and addBookmark or addChapter), then after both
\* have answered ok: true the store holds the effect of both, however their
\* steps interleave; so the handler that answers second leaves in the store
\* what the first has written.
C35_NoAcknowledgedUpdateLost == [][KeepsTheOthers]_vars

-----------------------------------------------------------------------------
(* SpecSel: a selection inside one text node is captured by
   getSelectedPayload and the payload handed to the Locator on the same
   document. *)

\* how much context getSelectedPayload takes on either side (popup.js:1455)
MaxContext == 120

NoPayload == [text |-> << >>, contextBefore |-> << >>, contextAfter |-> << >>]

\* getSelectedPayload (popup.js:1442-1470) for a range that starts and ends
\* in the text node sel.node of d: selection.toString() is the text between
\* the offsets
getSelectedPayload(d, sel) ==
    IF sel = NoSelection THEN NoPayload
    ELSE LET v == d[sel.node].v
             text == trim(slice(v, sel.startOffset, sel.endOffset))
         IN  IF text = << >> THEN NoPayload
             ELSE [text |-> text,
                   contextBefore |->
                       slice(v, Max2(0, sel.startOffset - MaxContext), sel.startOffset),
                   contextAfter |->
                       slice(v, sel.endOffset, Min2(Len(v), sel.endOffset + MaxContext))]

\* documents of one or two text nodes, with blanks and without
SelDocs ==
    {<<T(s)>> : s \in StrUpTo(MaxTextLen)}
    \cup {<<T(s1), T(s2)>> : s1, s2 \in StrUpTo(4) \ {<< >>}}
    \cup {<<T(<<"a", "b", "a", " ", "a", "b", "a">>)>>,
          <<T(<<"b", " ", "a", "b", "a", " ">>)>>,
          <<O("p"), T(<<"a", "a", "b", " ">>), C, T(<<"b", " ", "a", "a", "b">>)>>}

\* the ranges of a document that are not collapsed and lie in one text node
RangesOf(d) ==
    {[node |-> i, startOffset |-> a, endOffset |-> b] :
        <<i, a, b>> \in
            {t \in (1..Len(d)) \X (0..(MaxTextLen + 1)) \X (0..(MaxTextLen + 1)) :
                IsText(d[t[1]]) /\ t[2] < t[3] /\ t[3] <= Len(d[t[1]].v)}}

InitSel ==
    /\ doc \in SelDocs
    /\ selection \in RangesOf(doc)
    /\ PopupIdle
    /\ entry = NoEntry
    /\ found = NotCalled
    /\ PageFresh
    /\ ProgIdle
    /\ wait = NoWait
    /\ StoreIdle

\* the user saves the selection: the payload is captured
SaveSelection ==
    /\ obs = NoObs
    /\ entry' = getSelectedPayload(doc, selection)
    /\ obs' = [op |-> "saved"]
    /\ UNCHANGED <<doc, styled, href, lastHighlightUrl, lastHighlightSignature,
                   calls, lastRun, found, restVars>>

\* the payload is handed to the Locator
LocateSaved ==
    /\ obs.op = "saved"
    /\ Locate

NextSel == SaveSelection \/ LocateSaved

SpecSel == InitSel /\ [][NextSel]_vars

\* the selected text without the white space at its ends: its text node and
\* its offsets in it
TrimmedSpan(d, sel) ==
    LET v == d[sel.node].v
        keep == {i \in (sel.startOffset + 1)..sel.endOffset : ~IsSpace(v[i])}
    IN  [node |-> sel.node, start |-> Min(keep) - 1, end |-> Max(keep)]

\* C36: for a selection inside a single text node, whose trimmed text the
\* Locator accepts (three characters or more), the payload captured by
\* getSelectedPayload and handed to the Locator on the unchanged document
\* gives back the span of the selected text (trimmed), also when the same
\* text occurs elsewhere.
C36_SaveThenLocate ==
    (found.called /\ Len(entry.text) >= MinNeedleLen)
        => found.m = TrimmedSpan(doc, selection)

-----------------------------------------------------------------------------
(* SpecPager: the chapter list of the popup, for a multi-page material that
   stays selected: the paging buttons and refreshUI. *)

CHAPTERS_PER_PAGE == 5

\* Number.MAX_SAFE_INTEGER, for which a number beyond every page count
\* stands
MAX_SAFE_INTEGER == 1000000

\* how many calls of refreshUI await their data together
MaxRefreshing == 2

\* the chapter counts of the materials looked at: none, one page, two
\* pages, three pages
ChapterCounts == {0, 4, 6, 11}

\* what the user types into chaptersPageInput, in tenths
GoInputs == {0, 5, 10, 25, 30, 70}

\* Math.max(1, Math.ceil(n / CHAPTERS_PER_PAGE)) (popup.js:437)
TotalChapterPages(n) ==
    Max2(1, (n + CHAPTERS_PER_PAGE - 1) \div CHAPTERS_PER_PAGE)

InitPager ==
    /\ doc = << >>
    /\ selection = NoSelection
    /\ entry = NoEntry
    /\ found = NotCalled
    /\ PageFresh
    /\ ProgIdle
    /\ wait = NoWait
    /\ StoreIdle
    /\ chaptersPage = 1
    /\ lastSelectedChapterByMaterial = 0
    /\ chaptersAll \in ChapterCounts
    /\ refreshing = 1
    /\ pager = NoPager

PagerFrame ==
    UNCHANGED <<doc, styled, href, lastHighlightUrl, lastHighlightSignature, calls,
                lastRun, entry, found, progVars, wait, storeVars, selection,
                chaptersAll>>

\* a handler of the paging buttons: it sets chaptersPage and calls
\* refreshUI, which awaits the active tab and the data (popup.js:1225-1259,
\* 292-298)
Paging(button, page) ==
    /\ refreshing < MaxRefreshing
    /\ chaptersPage' = page
    /\ refreshing' = refreshing + 1
    /\ obs' = [op |-> "click", button |-> button]
    /\ UNCHANGED <<lastSelectedChapterByMaterial, pager>>
    /\ PagerFrame

\* the buttons are there when the pager is shown, and enabled as
\* renderChapterPager left them (popup.js:714-720)
ClickFirst == pager.shown /\ pager.page > 1 /\ Paging("chaptersFirst", 1)

ClickLast ==
    pager.shown /\ pager.page < pager.total /\ Paging("chaptersLast", MAX_SAFE_INTEGER)

ClickPrev ==
    pager.shown /\ pager.page > 1 /\ Paging("chaptersPrev", Max2(1, chaptersPage - 1))

ClickNext ==
    pager.shown /\ pager.page < pager.total /\ Paging("chaptersNext", chaptersPage + 1)

\* the numbered buttons: up to five pages around the current one
\* (popup.js:722-725)
Numbered ==
    LET end == Min2(pager.total, Max2(1, pager.page - 2) + 4)
    IN  Max2(1, end - 4)..end

ClickPage(p) == pager.shown /\ p \in Numbered /\ Paging("chaptersPages", p)

\* chaptersGo with the number typed, given in tenths: Math.floor(p), and no
\* change for a number below 1 (popup.js:1250-1259)
ClickGo(tenths) ==
    /\ pager.shown
    /\ IF tenths < 10
          THEN /\ obs' = [op |-> "status", line |-> "Enter a valid page number."]
               /\ UNCHANGED <<popupVars>>
               /\ PagerFrame
          ELSE Paging("chaptersGo", tenths \div 10)

\* Select on a chapter of the page on display (popup.js:1104-1111)
SelectChapter(i) ==
    /\ refreshing < MaxRefreshing
    /\ i > (pager.page - 1) * CHAPTERS_PER_PAGE
    /\ i <= Min2(chaptersAll, pager.page * CHAPTERS_PER_PAGE)
    /\ lastSelectedChapterByMaterial' = i
    /\ refreshing' = refreshing + 1
    /\ obs' = [op |-> "click", button |-> "select-chapter"]
    /\ UNCHANGED <<chaptersPage, pager>>
    /\ PagerFrame

\* the chapter refreshUI selects: the one remembered, else the one of the
\* active tab, else the latest (popup.js:365-381); 0 without chapters
SelectedChapter(remembered, tab, n) ==
    IF n = 0 THEN 0
    ELSE IF remembered \in 1..n THEN remembered
    ELSE IF tab \in 1..n THEN tab
    ELSE n

\* the page after 'Ensure the selected (latest) chapter is visible'
\* (popup.js:400-412): selected is the number of the selected chapter
JumpsToSelected(page, selected) ==
    LET idx == selected - 1
        start == (page - 1) * CHAPTERS_PER_PAGE
    IN  IF selected # 0 /\ ~(idx >= start /\ idx < start + CHAPTERS_PER_PAGE)
           THEN idx \div CHAPTERS_PER_PAGE + 1
           ELSE page

\* refreshUI from the return of its data to its end, the active tab showing
\* chapter tab or, with 0, no chapter (popup.js:298-460)
RefreshUI(tab) ==
    /\ refreshing > 0
    /\ tab <= chaptersAll
    /\ LET selected == SelectedChapter(lastSelectedChapterByMaterial, tab, chaptersAll)
           total == TotalChapterPages(chaptersAll)
           page == Max2(1, Min2(total, JumpsToSelected(chaptersPage, selected)))
       IN  /\ lastSelectedChapterByMaterial' = selected
           /\ chaptersPage' = page
           /\ pager' = [page |-> page, total |-> total,
                        shown |-> chaptersAll > CHAPTERS_PER_PAGE]
           /\ obs' = [op |-> "refreshUI", selected |-> selected]
    /\ refreshing' = refreshing - 1
    /\ PagerFrame

MaxChapters == Max(ChapterCounts)

NextPager ==
    \/ ClickFirst
    \/ ClickLast
    \/ ClickPrev
    \/ ClickNext
    \/ \E p \in 1..TotalChapterPages(MaxChapters) : ClickPage(p)
    \/ \E tenths \in GoInputs : ClickGo(tenths)
    \/ \E i \in 1..MaxChapters : SelectChapter(i)
    \/ \E tab \in 0..MaxChapters : RefreshUI(tab)

SpecPager == InitPager /\ [][NextPager]_vars

\* after a refreshUI the page is one of the pages there are
PageInRange ==
    obs.op = "refreshUI" => chaptersPage \in 1..TotalChapterPages(chaptersAll)

\* the buttons that ask for a page
PagingButtons == {"chaptersNext", "chaptersLast", "chaptersPages", "chaptersGo"}

\* the refreshUI that follows the click on a paging button shows the page
\* that was asked for: chaptersPage as the click left it, brought into
\* 1..totalChapterPages
ShowsRequested ==
    (obs.op = "click" /\ obs.button \in PagingButtons /\ refreshing' < refreshing) =>
        chaptersPage' = Max2(1, Min2(TotalChapterPages(chaptersAll), chaptersPage))

\* C37: after every refreshUI chaptersPage lies in 1..totalChapterPages;
\* and when the user clicks chaptersNext (or a numbered page, Last, Go)
\* while a further page exists, the page shown after the refresh is the
\* page asked for, also when the chapter selected is on another page.
C37_PagerShowsRequestedPage == []PageInRange /\ [][ShowsRequested]_vars

-----------------------------------------------------------------------------
(* SpecProgFair: the progress reporter in a browser that runs the timers
   that are due and delivers the events that have happened. *)

SpecProgFair ==
    /\ InitProg
    /\ [][NextProg]_vars
    /\ WF_vars(\E id \in TimerIds : TimerFires(id))
    /\ WF_vars(\E e \in {"scroll", "resize"} : DomEvent(e))
    /\ WF_vars(InitialTrigger)
    /\ WF_vars(RestoreTrigger)

\* a scroll or resize event has been delivered to scheduleSendProgress
EventDelivered == obs.op = "trigger" /\ obs.by \in {"scroll", "resize"}

\* the report timer has fired and has evaluated the position the page has
Fired ==
    /\ obs.op = "fire"
    /\ obs.progress \in computeScrollProgressPercent(scrollY, scrollRange)

\* no event and no trigger is to come
Calm == due.events = {} /\ ~due.initial /\ due.restore = 0

\* no timer is pending and what was sent last is less than two points from
\* the progress of the page
Settled ==
    /\ timers = {}
    /\ \E progress \in computeScrollProgressPercent(scrollY, scrollRange) :
          Abs(progress - lastSentProgress) < MinDelta

\* the fire of the report timer leaves lastSentProgress less than two points
\* from the progress it evaluated, which is the progress of the page then
SettledAtFire ==
    obs.op = "fire" =>
        /\ obs.progress \in computeScrollProgressPercent(scrollY, scrollRange)
        /\ Abs(obs.progress - lastSentProgress) < MinDelta

\* C38 as amended: every scroll or resize event is followed by a fire of
\* the report timer that evaluates the scroll position as it is at or after
\* the event; each fire leaves lastSentProgress less than 2 points from the
\* progress of the page at that moment; and once the events have stopped,
\* in the end no timer is pending. (The progress of a page whose document
\* changes its height after the last fire is not looked at again.)
C38_TrailingEdgeAtFire ==
    /\ EventDelivered ~> Fired
    /\ []SettledAtFire
    /\ (<>[]Calm) => <>[](timers = {})

\* C38: every scroll or resize event is followed by a fire of the report
\* timer that evaluates the scroll position as it is at or after the event;
\* so once the events have stopped, in the end no timer is pending and
\* lastSentProgress is less than 2 points from the progress of the page.
C38_TrailingEdge ==
    /\ EventDelivered ~> Fired
    /\ (<>[]Calm) => <>[]Settled

\* the reader has scrolled after a first report and the timer has fired
\* again: the second report has the progress of the page, nothing is due
\* and no timer is pending
C38_Witness ==
    /\ obs.op = "fire" /\ obs.sent /\ obs.previous # NeverSent
    /\ scrollY > 0
    /\ Calm
    /\ Settled

====
